---------------------------- MODULE Spec2Model ----------------------------
(***************************************************************************)
(* jsonextract: the scanning driver (Reader), its rewindable byte source   *)
(* (resettableRuneBuffer) and the relaxed-JSON normaliser (readJSObject).  *)
(*                                                                         *)
(* Bytes are one-character strings; a byte slice is a sequence of them.    *)
(* All bytes of the model are ASCII, so a rune is one byte.                *)
(***************************************************************************)
EXTENDS Integers, Sequences, FiniteSets, TLC

(***************************************************************************)
(* Bytes and byte classes                                                  *)
(***************************************************************************)

\* reader.go:18-22
openObject == "{"

openArray == "["

\* reader.go:24-27
matchingBracket(b) == IF b = "{" THEN "}" ELSE IF b = "[" THEN "]" ELSE "NUL"

\* The backtick byte (the module's string syntax cannot hold it literally).
Backtick == "BACKTICK"

\* What Peek yields past the end of the lexer's input (a NUL byte with Err() set).
EOFByte == "EOF"

Digits == {"0", "1", "2", "3", "4", "5", "6", "7", "8", "9"}

Letters ==
  {"a", "b", "c", "d", "e", "f", "g", "h", "i", "j", "k", "l", "m", "n", "o",
   "p", "q", "r", "s", "t", "u", "v", "w", "x", "y", "z",
   "A", "B", "C", "D", "E", "F", "N", "X", "_", "$"}

WhitespaceBytes == {" ", "\t"}

LineTerminatorBytes == {"\n", "\r"}

\* One-byte punctuators the lexer returns on sight.
SimplePunct == {"{", "}", "[", "]", "(", ")", ",", ";", ":", "~", "?"}

\* Operator bytes that may start a longer operator (++, +=, ||, ==, ...).
OperatorBytes == {"+", "-", "*", "%", "&", "|", "^", "=", "!", "<", ">"}

\* Operator bytes that form a two-byte operator when doubled.
DoubledOperators == {"+", "-", "*", "&", "|", "=", "<", ">"}

At(s, i) == IF i >= 1 /\ i <= Len(s) THEN s[i] ELSE EOFByte

Last(s) == s[Len(s)]

\* s[i .. i+n-1], empty when that runs past the end of s.
Text(s, i, n) == IF n >= 1 /\ i + n - 1 <= Len(s) THEN SubSeq(s, i, i + n - 1) ELSE <<>>

RECURSIVE Concat(_)
\* The sequences of seqs one after the other.
Concat(seqs) == IF seqs = <<>> THEN <<>> ELSE Head(seqs) \o Concat(Tail(seqs))

(***************************************************************************)
(* The JavaScript lexer readJSObject pulls its tokens from                 *)
(* (github.com/tdewolff/parse/v2/js, called at reader.go:277, 296, 335).   *)
(***************************************************************************)

RECURSIVE SpanEnd(_, _, _)
\* First index >= i whose byte is outside class.
SpanEnd(s, i, class) ==
  IF At(s, i) \in class THEN SpanEnd(s, i + 1, class) ELSE i

RECURSIVE LineEnd(_, _)
\* consumeSingleLineComment: first index >= i holding a line terminator or
\* lying past the end of input.
LineEnd(s, i) ==
  IF At(s, i) \in LineTerminatorBytes \cup {EOFByte} THEN i ELSE LineEnd(s, i + 1)

RECURSIVE BlockCommentEnd(_, _)
\* consumeCommentToken behind the two bytes that open a block comment: the
\* index after the two bytes that close it, or after the end of input.
BlockCommentEnd(s, i) ==
  IF At(s, i) = EOFByte THEN i
  ELSE IF At(s, i) = "*" /\ At(s, i + 1) = "/" THEN i + 2
  ELSE BlockCommentEnd(s, i + 1)

\* A block comment that holds a line terminator is a token of its own type.
BlockCommentTok(s, i, e) ==
  [tt |-> IF \E k \in i..(e - 1) : At(s, k) \in LineTerminatorBytes
            THEN "CommentLineTerminator" ELSE "Comment",
   n |-> e - i]

RECURSIVE StringEnd(_, _, _)
\* consumeStringToken: index after the closing delimiter, 0 when the string
\* is cut by a line terminator or the end of input.
StringEnd(s, i, delim) ==
  LET c == At(s, i) IN
  IF c = delim THEN i + 1
  ELSE IF c = "\\" THEN
    IF At(s, i + 1) \in LineTerminatorBytes THEN StringEnd(s, i + 2, delim)
    ELSE IF At(s, i + 1) \in {delim, "\\"} THEN StringEnd(s, i + 2, delim)
    ELSE StringEnd(s, i + 1, delim)
  ELSE IF c \in LineTerminatorBytes \cup {EOFByte} THEN 0
  ELSE StringEnd(s, i + 1, delim)

RECURSIVE TemplateEnd(_, _)
\* consumeTemplateToken without substitutions: index after the closing
\* backtick, 0 at the end of input.
TemplateEnd(s, i) ==
  LET c == At(s, i) IN
  IF c = Backtick THEN i + 1
  ELSE IF c = EOFByte THEN 0
  ELSE IF c = "\\" /\ At(s, i + 1) # EOFByte THEN TemplateEnd(s, i + 2)
  ELSE TemplateEnd(s, i + 1)

RECURSIVE RegExpBodyEnd(_, _, _)
\* consumeRegExpToken, the body: index after the closing '/', 0 when cut by
\* a line terminator or the end of input.  '/' inside a class [...] does
\* not close the literal.
RegExpBodyEnd(s, i, inClass) ==
  LET c == At(s, i) IN
  IF ~inClass /\ c = "/" THEN i + 1
  ELSE IF c = "[" THEN RegExpBodyEnd(s, i + 1, TRUE)
  ELSE IF c = "]" THEN RegExpBodyEnd(s, i + 1, FALSE)
  ELSE IF c = "\\" THEN
    IF At(s, i + 1) \in LineTerminatorBytes \cup {EOFByte} THEN 0
    ELSE RegExpBodyEnd(s, i + 2, inClass)
  ELSE IF c \in LineTerminatorBytes \cup {EOFByte} THEN 0
  ELSE RegExpBodyEnd(s, i + 1, inClass)

\* Lexer.RegExp: re-reads the '/' at i as a regular expression literal with
\* its flags; the length of the literal, 0 when it is none.
RegExpFlagsEnd(s, i, e) ==
  IF e = 0 THEN 0 ELSE SpanEnd(s, e, Letters \cup Digits) - i

RegExpLen(s, i) == RegExpFlagsEnd(s, i, RegExpBodyEnd(s, i + 1, FALSE))

\* consumeNumericToken: the length of the literal at i, 0 when it is
\* malformed (a leading zero before a digit, an exponent or a prefix
\* without digits), which the lexer reports as an error.  A decimal literal
\* is digits, an optional fraction and an optional exponent, or digits and
\* the big-integer suffix n; it may start with the dot of its fraction.
ExponentLen(s, i, e2, e3) ==
  IF At(s, e2) \in {"e", "E"} THEN
    IF At(s, e3) \in Digits THEN SpanEnd(s, e3, Digits) - i ELSE 0
  ELSE e2 - i

FractionLen(s, i, e1, e2) ==
  IF At(s, i) = "0" /\ e1 > i + 1 THEN 0
  ELSE IF At(s, e1) = "n" THEN e1 + 1 - i
  ELSE ExponentLen(s, i, e2, IF At(s, e2 + 1) \in {"+", "-"} THEN e2 + 2 ELSE e2 + 1)

IntegerLen(s, i, e1) ==
  FractionLen(s, i, e1, IF At(s, e1) = "." THEN SpanEnd(s, e1 + 1, Digits) ELSE e1)

BinaryDigits == {"0", "1"}

OctalDigits == {"0", "1", "2", "3", "4", "5", "6", "7"}

\* The digits of the literal with a prefix at i, by the byte behind the 0.
PrefixDigits(c) ==
  IF c \in {"x", "X"} THEN Digits \cup {"a", "b", "c", "d", "e", "f", "A", "B", "C", "D", "E", "F"}
  ELSE IF c \in {"b", "B"} THEN BinaryDigits
  ELSE IF c \in {"o", "O"} THEN OctalDigits
  ELSE {}

\* 0x, 0b and 0o literals: the prefix and at least one digit.
PrefixedLen(s, i, e) == IF e = i + 2 THEN 0 ELSE e - i

\* A literal that starts with the dot: digits must follow, then an
\* optional exponent.
DotLen(s, i, e2) ==
  ExponentLen(s, i, e2, IF At(s, e2 + 1) \in {"+", "-"} THEN e2 + 2 ELSE e2 + 1)

NumericLen(s, i) ==
  IF At(s, i) = "." THEN DotLen(s, i, SpanEnd(s, i + 1, Digits))
  ELSE IF At(s, i) = "0" /\ PrefixDigits(At(s, i + 1)) # {}
    THEN PrefixedLen(s, i, SpanEnd(s, i + 2, PrefixDigits(At(s, i + 1))))
  ELSE IntegerLen(s, i, SpanEnd(s, i, Digits))

Tok(tt, n) == [tt |-> tt, n |-> n]

\* A token that ends at index e, or the lexer's error when e = 0.
TokTo(tt, i, e) == IF e = 0 THEN Tok("Error", 1) ELSE Tok(tt, e - i)

\* The numeric token of length n at i (n = 0: malformed).
NumericTok(s, i, n) ==
  IF n = 0 THEN Tok("Error", 1)
  ELSE IF At(s, i + n - 1) = "n" THEN Tok("BigInt", n)
  ELSE Tok("Numeric", n)

\* Lexer.Next at offset i of input s: the token type and the length of its
\* text.  tt = "Error" with n = 0 is the end of input (Err() = io.EOF);
\* tt = "Error" with n = 1 is an unexpected byte (Err() a lexer error).
LexByte(s, i, c) ==
  IF c = EOFByte THEN Tok("Error", 0)
  ELSE IF c \in WhitespaceBytes THEN
    Tok("Whitespace", SpanEnd(s, i, WhitespaceBytes) - i)
  ELSE IF c \in LineTerminatorBytes THEN
    Tok("LineTerminator", SpanEnd(s, i, LineTerminatorBytes) - i)
  ELSE IF c \in SimplePunct THEN Tok("Punct", 1)
  ELSE IF c = "/" THEN
    IF At(s, i + 1) = "/" THEN Tok("Comment", LineEnd(s, i) - i)
    ELSE IF At(s, i + 1) = "*" THEN BlockCommentTok(s, i, BlockCommentEnd(s, i + 2))
    ELSE IF At(s, i + 1) = "=" THEN Tok("DivEq", 2)
    ELSE Tok("Div", 1)
  ELSE IF c \in OperatorBytes THEN
    IF At(s, i + 1) = "=" \/ (At(s, i + 1) = c /\ c \in DoubledOperators)
      THEN Tok("Punct", 2)
      ELSE Tok("Punct", 1)
  ELSE IF c \in Digits THEN NumericTok(s, i, NumericLen(s, i))
  ELSE IF c = "." THEN
    IF At(s, i + 1) \in Digits THEN NumericTok(s, i, NumericLen(s, i))
    ELSE IF At(s, i + 1) = "." /\ At(s, i + 2) = "." THEN Tok("Punct", 3)
    ELSE Tok("Punct", 1)
  ELSE IF c \in {"\"", "'"} THEN TokTo("String", i, StringEnd(s, i + 1, c))
  ELSE IF c = Backtick THEN TokTo("Template", i, TemplateEnd(s, i + 1))
  ELSE IF c \in Letters THEN
    Tok("Identifier", SpanEnd(s, i, Letters \cup Digits) - i)
  ELSE Tok("Error", 1)

LexNext(s, i) == LexByte(s, i, At(s, i))

(***************************************************************************)
(* Conversions applied by the normaliser                                   *)
(***************************************************************************)

\* encoding/json's string encoder, one byte: quotes, backslashes and control
\* bytes are escaped, and so are the HTML bytes < > &.
EscapeByte(c) ==
  IF c = "\"" THEN <<"\\", "\"">>
  ELSE IF c = "\\" THEN <<"\\", "\\">>
  ELSE IF c = "\n" THEN <<"\\", "n">>
  ELSE IF c = "\r" THEN <<"\\", "r">>
  ELSE IF c = "\t" THEN <<"\\", "t">>
  ELSE IF c = "<" THEN <<"\\", "u", "0", "0", "3", "c">>
  ELSE IF c = ">" THEN <<"\\", "u", "0", "0", "3", "e">>
  ELSE IF c = "&" THEN <<"\\", "u", "0", "0", "2", "6">>
  ELSE <<c>>

RECURSIVE EscapeAll(_)
EscapeAll(text) ==
  IF text = <<>> THEN <<>> ELSE EscapeByte(Head(text)) \o EscapeAll(Tail(text))

\* json.Marshal(string(text)), reader.go:325, 343, 421
Marshal(text) == <<"\"">> \o EscapeAll(text) \o <<"\"">>

\* reader.go:244-253
IsJSIdentifier(text) ==
  text \in {<<"t", "r", "u", "e">>, <<"f", "a", "l", "s", "e">>,
            <<"n", "u", "l", "l">>,
            <<"u", "n", "d", "e", "f", "i", "n", "e", "d">>, <<"N", "a", "N">>}

jsIdentifiers(text) ==
  IF text \in {<<"u", "n", "d", "e", "f", "i", "n", "e", "d">>, <<"N", "a", "N">>}
    THEN <<"n", "u", "l", "l">>
    ELSE text

RECURSIVE singleQuoteReplacer(_)
\* reader.go:255-263: one left-to-right pass without overlapping matches;
\* ' becomes ", " becomes \", \' becomes '.
singleQuoteReplacer(text) ==
  IF text = <<>> THEN <<>>
  ELSE IF Head(text) = "'" THEN <<"\"">> \o singleQuoteReplacer(Tail(text))
  ELSE IF Head(text) = "\"" THEN <<"\\", "\"">> \o singleQuoteReplacer(Tail(text))
  ELSE IF Head(text) = "\\" /\ Len(text) >= 2 /\ text[2] = "'"
    THEN <<"'">> \o singleQuoteReplacer(Tail(Tail(text)))
  ELSE <<Head(text)>> \o singleQuoteReplacer(Tail(text))

RECURSIVE templateQuoteReplacer(_)
\* reader.go:265-269: an escaped backtick becomes a backtick.
templateQuoteReplacer(text) ==
  IF text = <<>> THEN <<>>
  ELSE IF Head(text) = "\\" /\ Len(text) >= 2 /\ text[2] = Backtick
    THEN <<Backtick>> \o templateQuoteReplacer(Tail(Tail(text)))
  ELSE <<Head(text)>> \o templateQuoteReplacer(Tail(text))

DigitSeq == <<"0", "1", "2", "3", "4", "5", "6", "7", "8", "9">>

\* The value of a digit of any base up to 16.
DigitVal(c) ==
  IF c \in Digits THEN (CHOOSE d \in 1..10 : DigitSeq[d] = c) - 1
  ELSE IF c \in {"a", "A"} THEN 10
  ELSE IF c \in {"b", "B"} THEN 11
  ELSE IF c \in {"c", "C"} THEN 12
  ELSE IF c \in {"d", "D"} THEN 13
  ELSE IF c \in {"e", "E"} THEN 14
  ELSE IF c \in {"f", "F"} THEN 15
  ELSE 16

\* A uint64 is kept as the sequence of its decimal digits, most significant
\* first and without leading zeros (zero is the empty sequence), so that
\* values up to 2^64 and beyond are told apart.
MaxUint64 == <<1, 8, 4, 4, 6, 7, 4, 4, 0, 7, 3, 7, 0, 9, 5, 5, 1, 6, 1, 5>>

RECURSIVE CarryDigits(_)
CarryDigits(c) == IF c = 0 THEN <<>> ELSE CarryDigits(c \div 10) \o <<c % 10>>

RECURSIVE MulAdd(_, _, _)
\* ui * base + carry
MulAdd(ui, base, carry) ==
  IF ui = <<>> THEN CarryDigits(carry)
  ELSE MulAdd(SubSeq(ui, 1, Len(ui) - 1), base, (Last(ui) * base + carry) \div 10)
       \o <<(Last(ui) * base + carry) % 10>>

RECURSIVE DigitsValue(_, _, _)
\* strconv.ParseUint reads no further once the value is out of range.
DigitsValue(number, base, acc) ==
  IF number = <<>> \/ Len(acc) > Len(MaxUint64) THEN acc
  ELSE DigitsValue(Tail(number), base, MulAdd(acc, base, DigitVal(Head(number))))

RECURSIVE NotAbove(_, _)
\* x <= y for digit sequences of one length
NotAbove(x, y) ==
  IF x = <<>> THEN TRUE
  ELSE IF Head(x) # Head(y) THEN Head(x) < Head(y)
  ELSE NotAbove(Tail(x), Tail(y))

\* The value fits 64 bits.
InRange(ui) ==
  Len(ui) < Len(MaxUint64) \/ (Len(ui) = Len(MaxUint64) /\ NotAbove(ui, MaxUint64))

\* strconv.ParseUint(number, 0, 64), the base by the prefix: 0x is 16, 0b
\* is 2, 0o and a bare leading 0 are 8, anything else is 10.
BaseOf(number) ==
  IF Len(number) >= 2 /\ number[1] = "0" THEN
    IF number[2] \in {"x", "X"} THEN 16
    ELSE IF number[2] \in {"b", "B"} THEN 2
    ELSE 8
  ELSE 10

\* The digits behind the prefix.
BaseDigits(number) ==
  IF Len(number) >= 2 /\ number[1] = "0" THEN
    IF number[2] \in {"x", "X", "b", "B", "o", "O"}
      THEN SubSeq(number, 3, Len(number))
      ELSE Tail(number)
  ELSE number

ParseUintOK(number) ==
  /\ BaseDigits(number) # <<>>
  /\ \A k \in DOMAIN BaseDigits(number) :
       DigitVal(BaseDigits(number)[k]) < BaseOf(number)
  /\ InRange(DigitsValue(BaseDigits(number), BaseOf(number), <<>>))

ParseUint(number) == DigitsValue(BaseDigits(number), BaseOf(number), <<>>)

\* strconv.AppendUint(out, ui, 10)
AppendUint(ui) ==
  IF ui = <<>> THEN <<"0">> ELSE [k \in DOMAIN ui |-> DigitSeq[ui[k] + 1]]

\* Variant of transformNumber that leaves the literal as it is written.
KeepNumber(number) == number

\* Variant of transformNumber that takes the value strconv.ParseUint
\* returns beside a range error, the largest of 64 bits.
SaturateNumber(number) ==
  LET out == IF number[1] = "-" THEN <<"-">> ELSE <<>>
      rest == IF number[1] \in {"+", "-"} THEN Tail(number) ELSE number
  IN IF ParseUintOK(rest) THEN out \o AppendUint(ParseUint(rest))
     ELSE IF BaseOf(rest) # 10 THEN out \o AppendUint(MaxUint64)
     ELSE out \o rest

\* reader.go:465-489
transformNumber(number) ==
  LET out == IF number[1] = "-" THEN <<"-">> ELSE <<>>
      rest == IF number[1] \in {"+", "-"} THEN Tail(number) ELSE number
  IN IF ParseUintOK(rest) THEN out \o AppendUint(ParseUint(rest)) ELSE out \o rest

\* bytes.TrimSuffix(text, "n"), reader.go:440
TrimSuffixN(text) ==
  IF Len(text) >= 1 /\ Last(text) = "n" THEN SubSeq(text, 1, Len(text) - 1) ELSE text

\* Variant of isIgnoredToken that lets every token through.
NothingIgnored(tt) == FALSE

\* reader.go:461-463
isIgnoredToken(tt) ==
  tt \in {"Whitespace", "LineTerminator", "Comment", "CommentLineTerminator"}

(***************************************************************************)
(* readJSObject, reader.go:274-459                                         *)
(***************************************************************************)

\* What readJSObject returns, with the lexer's true offset (the number of
\* input bytes its tokens cover) kept beside the count the function reports.
JSResult(output, readInputBytes, err, lexed) ==
  [output |-> output, readInputBytes |-> readInputBytes, err |-> err,
   lexed |-> lexed]

\* reader.go:458
JSReject(err) == JSResult(<<>>, 0, err, 0)

\* The outcome of one pass through the token loop: the loop goes on in
\* state st, or it has ended with result res.
Continue(st) == [done |-> FALSE, st |-> st, res |-> JSReject("nil")]

Break(res) == [done |-> TRUE, st |-> <<>>, res |-> res]

\* buf.Write(out) followed by the lastByte assignment of reader.go:452.
Write(st, out, lastByte) ==
  Continue([st EXCEPT !.buf = @ \o out, !.lastByte = lastByte])

\* buf.Truncate(buf.Len() - 1)
Truncate1(buf) == SubSeq(buf, 1, Len(buf) - 1)

\* reader.go:309: the bytes one token adds to readInputBytes.  tok is what
\* Next returned; the literal RegExp re-reads at line 335 adds nothing.
CountedBytes(tok) == tok.n

\* reader.go:304-309, with the lexer moved past the token.
Counted(st, tok, text) ==
  [st EXCEPT !.first = IF st.readInputBytes = 0 THEN text[1] ELSE @,
             !.readInputBytes = @ + CountedBytes(tok),
             !.i = @ + tok.n]

\* Variant of IdentifierOutput that quotes every identifier.
QuoteAlways(text) == Marshal(text)

\* reader.go:316-331: the bytes written for an identifier token.
IdentifierOutput(text) ==
  IF IsJSIdentifier(text) THEN jsIdentifiers(text) ELSE Marshal(text)

\* reader.go:316-331 and 452
OnIdentifier(st, text, out) ==
  Write(st, out, IF IsJSIdentifier(text) THEN Last(text) ELSE Last(out))

\* reader.go:332-348 and 452: n is the length of the literal RegExp read at
\* offset i0 (0: none); the lexer now stands behind the literal.
OnRegExp(s, st, i0, n) ==
  IF n = 0 THEN Break(JSReject("regex"))
  ELSE Write([st EXCEPT !.i = i0 + n], Marshal(Text(s, i0, n)), "\"")

\* reader.go:361: an opening brace directly after an opening brace.
DoubleBrace(lastByte, b) == lastByte = "{" /\ b = "{"

\* Variant of OnOpen that counts openers of either kind.
OnOpenOfAnyKind(st, b) ==
  IF DoubleBrace(st.lastByte, b) THEN Break(JSReject("brace"))
  ELSE Write([st EXCEPT !.level = @ + 1], <<b>>, b)

\* reader.go:356-366
OnOpen(st, b) ==
  IF DoubleBrace(st.lastByte, b) THEN Break(JSReject("brace"))
  ELSE Write([st EXCEPT !.level = IF b = st.first THEN @ + 1 ELSE @], <<b>>, b)

\* Variant of OnClose that leaves a comma before the closer in place.
OnCloseKeepComma(st, b) ==
  IF st.level = 1 /\ b = matchingBracket(st.first)
    THEN Break(JSResult(st.buf \o <<b>>, st.readInputBytes, "nil", st.i - 1))
    ELSE Write([st EXCEPT !.level = IF b = matchingBracket(st.first)
                                      THEN @ - 1 ELSE @], <<b>>, b)

\* reader.go:367-384; st1 is st with level and buf updated.
OnCloseDone(st1, b) ==
  IF st1.level = 0
    THEN Break(JSResult(st1.buf \o <<b>>, st1.readInputBytes, "nil", st1.i - 1))
    ELSE Write(st1, <<b>>, b)

\* Variant of OnClose that removes a comma only behind a value.
OnCloseAfterValue(st, b) ==
  OnCloseDone([st EXCEPT
                 !.level = IF b = matchingBracket(st.first) THEN @ - 1 ELSE @,
                 !.buf = IF st.lastByte = "," /\ Len(@) > 2
                         THEN Truncate1(@) ELSE @], b)

OnClose(st, b) ==
  OnCloseDone([st EXCEPT
                 !.level = IF b = matchingBracket(st.first) THEN @ - 1 ELSE @,
                 !.buf = IF st.lastByte = "," THEN Truncate1(@) ELSE @], b)

\* reader.go:349-395
OnPunct(st, text) ==
  IF Len(text) > 1 THEN Break(JSReject("token"))
  ELSE IF text[1] \in {"{", "["} THEN OnOpen(st, text[1])
  ELSE IF text[1] \in {"]", "}"} THEN OnClose(st, text[1])
  ELSE IF text[1] = "+" /\ st.lastByte \in Digits THEN Break(JSReject("plus"))
  ELSE Write(st, text, Last(text))

\* Variant of StringOutput that quotes the token once more.
Requoted(text) == Marshal(text)

\* reader.go:396-412: the bytes written for a string token.
StringOutput(text) ==
  IF text[1] = "'" THEN singleQuoteReplacer(text) ELSE text

OnString(st, text) == Write(st, StringOutput(text), Last(text))

\* reader.go:413-427: the bytes written for a template token.
TemplateOutput(text) ==
  Marshal(templateQuoteReplacer(SubSeq(text, 2, Len(text) - 1)))

OnTemplate(st, text) ==
  IF Len(text) <= 2 THEN Break(JSReject("template"))
  ELSE Write(st, TemplateOutput(text), "\"")

\* reader.go:437-444: the bytes written for a numeric token.
NumericOutput(tt, text) ==
  transformNumber(IF tt = "BigInt" THEN TrimSuffixN(text) ELSE text)

\* reader.go:428-446 and 452
OnNumeric(st, out) ==
  Write([st EXCEPT !.buf = IF st.lastByte = "+" THEN Truncate1(@) ELSE @],
        out, Last(out))

\* reader.go:311-452: the switch on the token, st already counted.
OnToken(s, st, i0, tok, text) ==
  IF isIgnoredToken(tok.tt) THEN Continue(st)
  ELSE IF tok.tt = "Identifier" THEN OnIdentifier(st, text, IdentifierOutput(text))
  ELSE IF tok.tt \in {"Div", "DivEq"} THEN OnRegExp(s, st, i0, RegExpLen(s, i0))
  ELSE IF tok.tt = "Punct" THEN OnPunct(st, text)
  ELSE IF tok.tt = "String" THEN OnString(st, text)
  ELSE IF tok.tt = "Template" THEN OnTemplate(st, text)
  ELSE IF tok.tt \in {"Numeric", "BigInt"}
    THEN OnNumeric(st, NumericOutput(tok.tt, text))
  ELSE Write(st, text, Last(text))

\* reader.go:296-300, then the rest of the pass.
OnNext(s, st, tok, text) ==
  IF tok.tt = "Error" THEN
    IF tok.n = 0
      THEN Break(JSResult(st.buf, st.readInputBytes, "nil", st.i - 1))  \* io.EOF
      ELSE Break(JSReject("lexer"))
  ELSE OnToken(s, Counted(st, tok, text), st.i, tok, text)

TokenPass(s, st, tok) == OnNext(s, st, tok, Text(s, st.i, tok.n))

RECURSIVE NormLoop(_, _)
\* The token loop, reader.go:295-453.  st holds the lexer offset i (1-based
\* index of the next byte), buf, readInputBytes, first, level and lastByte;
\* pass is the outcome of the pass just made.
NormLoop(s, pass) ==
  IF pass.done THEN pass.res
  ELSE NormLoop(s, TokenPass(s, pass.st, LexNext(s, pass.st.i)))

\* readJSObject on the bytes NewInput read from r.
readJSObject(s) ==
  NormLoop(s, Continue([i |-> 1, buf |-> <<>>, readInputBytes |-> 0,
                        first |-> "NUL", level |-> 0, lastByte |-> "NUL"]))

(***************************************************************************)
(* json.Valid (encoding/json), the gate at reader.go:83                    *)
(***************************************************************************)

JSONWhitespace == {" ", "\t", "\n", "\r"}

HexDigits == Digits \cup {"a", "b", "c", "d", "e", "f", "A", "B", "C", "D", "E", "F"}

ControlBytes == {"\t", "\n", "\r", "\f"}

SkipWS(s, i) == SpanEnd(s, i, JSONWhitespace)

RECURSIVE JStringEnd(_, _)
\* i is the index after the opening quote; the index after the closing
\* quote, 0 when the string is malformed.
JStringEnd(s, i) ==
  LET c == At(s, i) IN
  IF c = "\"" THEN i + 1
  ELSE IF c = EOFByte \/ c \in ControlBytes THEN 0
  ELSE IF c = "\\" THEN
    IF At(s, i + 1) \in {"\"", "\\", "/", "b", "f", "n", "r", "t"}
      THEN JStringEnd(s, i + 2)
    ELSE IF At(s, i + 1) = "u" /\ \A k \in 2..5 : At(s, i + k) \in HexDigits
      THEN JStringEnd(s, i + 6)
    ELSE 0
  ELSE JStringEnd(s, i + 1)

\* The index after the number starting at i, 0 when it is malformed.
JNumberEnd(s, i) ==
  LET i1 == IF At(s, i) = "-" THEN i + 1 ELSE i
      i2 == IF At(s, i1) = "0" THEN i1 + 1 ELSE SpanEnd(s, i1, Digits)
      i3 == IF At(s, i2) = "." THEN SpanEnd(s, i2 + 1, Digits) ELSE i2
      i4 == IF At(s, i3) \in {"e", "E"}
              THEN (IF At(s, i3 + 1) \in {"+", "-"} THEN i3 + 2 ELSE i3 + 1)
              ELSE i3
      i5 == IF At(s, i3) \in {"e", "E"} THEN SpanEnd(s, i4, Digits) ELSE i3
  IN IF i2 = i1 THEN 0
     ELSE IF At(s, i2) = "." /\ i3 = i2 + 1 THEN 0
     ELSE IF At(s, i3) \in {"e", "E"} /\ i5 = i4 THEN 0
     ELSE i5

JLiteralEnd(s, i) ==
  IF Text(s, i, 4) = <<"t", "r", "u", "e">> THEN i + 4
  ELSE IF Text(s, i, 4) = <<"n", "u", "l", "l">> THEN i + 4
  ELSE IF Text(s, i, 5) = <<"f", "a", "l", "s", "e">> THEN i + 5
  ELSE 0

RECURSIVE JValueEnd(_, _), JElementsEnd(_, _), JMembersEnd(_, _)
\* The index after the value that starts at i (leading whitespace
\* skipped), 0 when there is no value.
JValueEnd(s, i) ==
  LET j == SkipWS(s, i)
      c == At(s, j)
  IN IF c = "[" THEN
       (IF At(s, SkipWS(s, j + 1)) = "]" THEN SkipWS(s, j + 1) + 1
        ELSE JElementsEnd(s, j + 1))
     ELSE IF c = "{" THEN
       (IF At(s, SkipWS(s, j + 1)) = "}" THEN SkipWS(s, j + 1) + 1
        ELSE JMembersEnd(s, j + 1))
     ELSE IF c = "\"" THEN JStringEnd(s, j + 1)
     ELSE IF c = "-" \/ c \in Digits THEN JNumberEnd(s, j)
     ELSE JLiteralEnd(s, j)

\* value (',' value)* ']' starting at i
JElementsEnd(s, i) ==
  LET e == JValueEnd(s, i)
      j == SkipWS(s, e)
  IN IF e = 0 THEN 0
     ELSE IF At(s, j) = "," THEN JElementsEnd(s, j + 1)
     ELSE IF At(s, j) = "]" THEN j + 1
     ELSE 0

\* string ':' value (',' string ':' value)* '}' starting at i
JMembersEnd(s, i) ==
  LET k == SkipWS(s, i)
      ke == IF At(s, k) = "\"" THEN JStringEnd(s, k + 1) ELSE 0
      c == SkipWS(s, ke)
      e == IF ke # 0 /\ At(s, c) = ":" THEN JValueEnd(s, c + 1) ELSE 0
      j == SkipWS(s, e)
  IN IF e = 0 THEN 0
     ELSE IF At(s, j) = "," THEN JMembersEnd(s, j + 1)
     ELSE IF At(s, j) = "}" THEN j + 1
     ELSE 0

\* json.Valid(msg)
Valid(msg) ==
  LET e == JValueEnd(msg, 1) IN e # 0 /\ SkipWS(msg, e) = Len(msg) + 1

(***************************************************************************)
(* State                                                                   *)
(***************************************************************************)

VARIABLES
  src,          \* the bytes the underlying io.Reader holds
  failAt,       \* the reader fails once failAt bytes are out; NoFail: never
  sticky,       \* TRUE: every read after the failure fails too
  failed,       \* the failure has been returned at least once
  npos,         \* normalBuffer: bytes of src consumed
  nUnread,      \* normalBuffer: its last operation was a ReadRune
  ret,          \* returnBuffer: unread bytes
  retLast,      \* returnBuffer: the rune UnreadRune would put back, or <<>>
  bufBefore,    \* bufBefore: captured bytes
  enableReturn, \* enableReturn
  pc,           \* where Reader stands: "scan", "callback", "done", "panic";
                \* "buffer" while the buffer is driven directly
  msg,          \* the slice handed to the running callback
  err,          \* Reader's result once pc = "done"
  calls,        \* the slices the callback has been invoked with, in order
  starts,       \* the source offset of each delivered value's opener
  probe,        \* the last speculative parse: opener offset and outcome
  run,          \* 0: the caller's input; 1: a delivered value read again
  last,         \* what the step just taken did
  got,          \* the last read on the buffer: offset expected, bytes, error
  mark,         \* stream offset of the pending MarkStart, or -1
  expect,       \* the stream offset the next read must yield, or -1
  given,        \* the values the input was put together from, in order
  walk,         \* Objects: options, satisfied entries, the walk of keyFunc
  unm           \* the callback made by Unmarshal: container, verify calls

vars ==
  <<src, failAt, sticky, failed, npos, nUnread, ret, retLast, bufBefore,
    enableReturn, pc, msg, err, calls, starts, probe, run, last, got, mark,
    expect, given, walk, unm>>

srcVars == <<src, failAt, sticky, given>>

bufVars == <<failed, npos, nUnread, ret, retLast, bufBefore, enableReturn>>

markVars == <<got, mark, expect>>

\* What belongs to the callers of Reader in objects.go.
objVars == <<walk, unm>>

\* failAt when the underlying reader never fails.
NoFail == -1

\* What ReadRune stores for the zero rune it returns beside an error.
NUL == "NUL"

(***************************************************************************)
(* resettableRuneBuffer, reader.go:125-242.  Each operation is a function  *)
(* from the buffer's fields b to its fields afterwards (and its results).  *)
(***************************************************************************)

Buf ==
  [npos |-> npos, nUnread |-> nUnread, failed |-> failed, ret |-> ret,
   retLast |-> retLast, bufBefore |-> bufBefore, enableReturn |-> enableReturn]

SetBuf(b) ==
  /\ npos' = b.npos
  /\ nUnread' = b.nUnread
  /\ failed' = b.failed
  /\ ret' = b.ret
  /\ retLast' = b.retLast
  /\ bufBefore' = b.bufBefore
  /\ enableReturn' = b.enableReturn

\* reader.go:141-152
newResettableBuffer ==
  [npos |-> 0, nUnread |-> FALSE, failed |-> FALSE, ret |-> <<>>,
   retLast |-> <<>>, bufBefore |-> <<>>, enableReturn |-> FALSE]

\* The underlying reader fails on the next read at offset b.npos.
FailsNow(b) == failAt = b.npos /\ (sticky \/ ~b.failed)

\* The offset at which reading on from b.npos stops: the failure point when
\* one lies ahead, else the end of src.
StopAt(b) ==
  IF failAt # NoFail /\ failAt >= b.npos /\ (sticky \/ ~b.failed)
    THEN failAt ELSE Len(src)

\* reader.go:155-170, called until it returns an error (ioutil.ReadAll in
\* parse.NewInput, reader.go:277).  The result holds the buffer afterwards,
\* the bytes read and the error ("EOF" is ReadAll's success).
ReadAll(b) ==
  LET stop == StopAt(b)
      data == b.ret \o SubSeq(src, b.npos + 1, stop)
      hit == FailsNow([b EXCEPT !.npos = stop])
  IN [b |-> [b EXCEPT !.ret = <<>>, !.retLast = <<>>, !.npos = stop,
                      !.nUnread = FALSE,
                      !.failed = b.failed \/ hit,
                      !.bufBefore = IF b.enableReturn
                                      THEN b.bufBefore \o data ELSE b.bufBefore],
      data |-> data,
      err |-> IF hit THEN "readErr" ELSE "EOF"]

\* Variant of ReadCall that takes a read shorter than p for the end.
ReadCallShortIsEnd(b, y) ==
  LET data == b.ret \o SubSeq(src, b.npos + 1, b.npos + y)
  IN [b |-> [b EXCEPT !.ret = <<>>, !.retLast = <<>>, !.npos = b.npos + y,
                      !.nUnread = FALSE,
                      !.failed = b.failed \/ (y = 0 /\ FailsNow(b)),
                      !.bufBefore = IF b.enableReturn
                                      THEN b.bufBefore \o data ELSE b.bufBefore],
      data |-> data,
      err |-> IF y = 0 /\ FailsNow(b) THEN "readErr" ELSE "EOF"]

\* reader.go:155-170, one call with p longer than all that is left, as
\* ioutil.ReadAll makes it, when normalBuffer.Read yields y bytes: the
\* replay buffer is emptied into p, then normalBuffer is read once.
ReadCall(b, y) ==
  LET data == b.ret \o SubSeq(src, b.npos + 1, b.npos + y)
      hit == y = 0 /\ FailsNow(b)
  IN [b |-> [b EXCEPT !.ret = <<>>, !.retLast = <<>>, !.npos = b.npos + y,
                      !.nUnread = FALSE,
                      !.failed = b.failed \/ hit,
                      !.bufBefore = IF b.enableReturn
                                      THEN b.bufBefore \o data ELSE b.bufBefore],
      data |-> data,
      err |-> IF hit THEN "readErr" ELSE IF y = 0 THEN "EOF" ELSE "nil"]

\* What normalBuffer.Read yields when the source hands out at most chunk
\* bytes per Read.
Yield(b, chunk) ==
  IF StopAt(b) - b.npos < chunk THEN StopAt(b) - b.npos ELSE chunk

RECURSIVE ReadAllBy(_, _)
\* ioutil.ReadAll over a source that hands out at most chunk bytes per
\* Read: Read is called until it returns an error.
ReadAllBy(b, chunk) ==
  LET r == ReadCall(b, Yield(b, chunk))
  IN IF r.err # "nil" THEN r
     ELSE LET rest == ReadAllBy(r.b, chunk)
          IN [b |-> rest.b, data |-> r.data \o rest.data, err |-> rest.err]

\* reader.go:155-170, one call with len(p) = n that the underlying reader
\* serves in full when it can.
Read(b, n) ==
  LET fromRet == SubSeq(b.ret, 1, IF n < Len(b.ret) THEN n ELSE Len(b.ret))
      want == n - Len(fromRet)
      stop == IF StopAt(b) < b.npos + want THEN StopAt(b) ELSE b.npos + want
      fromSrc == IF want > 0 THEN SubSeq(src, b.npos + 1, stop) ELSE <<>>
      data == fromRet \o fromSrc
      hit == want > 0 /\ fromSrc = <<>> /\ FailsNow(b)
      eof == want > 0 /\ fromSrc = <<>> /\ ~hit
  IN [b |-> [b EXCEPT !.ret = SubSeq(b.ret, Len(fromRet) + 1, Len(b.ret)),
                      !.retLast = <<>>,
                      !.npos = IF want > 0 THEN stop ELSE b.npos,
                      !.nUnread = IF want > 0 THEN FALSE ELSE b.nUnread,
                      !.failed = b.failed \/ hit,
                      !.bufBefore = IF b.enableReturn
                                      THEN b.bufBefore \o data ELSE b.bufBefore],
      data |-> data,
      err |-> IF hit THEN "readErr" ELSE IF eof THEN "EOF" ELSE "nil"]

\* reader.go:172-184
ReadRune(b) ==
  LET fromRet == b.ret # <<>>
      hit == ~fromRet /\ FailsNow(b)
      eof == ~fromRet /\ ~hit /\ b.npos >= Len(src)
      r == IF fromRet THEN Head(b.ret)
           ELSE IF hit \/ eof THEN NUL ELSE src[b.npos + 1]
      b1 == IF fromRet
              THEN [b EXCEPT !.ret = Tail(b.ret), !.retLast = <<r>>]
            ELSE IF hit \/ eof
              THEN [b EXCEPT !.retLast = <<>>, !.nUnread = FALSE,
                             !.failed = b.failed \/ hit]
            ELSE [b EXCEPT !.retLast = <<>>, !.nUnread = TRUE,
                           !.npos = b.npos + 1]
  IN [b |-> IF b.enableReturn
              THEN [b1 EXCEPT !.bufBefore = b.bufBefore \o <<r>>] ELSE b1,
      r |-> r,
      err |-> IF hit THEN "readErr" ELSE IF eof THEN "EOF" ELSE "nil"]

\* reader.go:186-198.  bufBefore.UnreadRune never succeeds: bufBefore is
\* only written, and a bytes.Buffer unreads only after a ReadRune of its own.
UnreadRune(b) ==
  IF b.retLast # <<>>
    THEN [b |-> [b EXCEPT !.ret = b.retLast \o b.ret, !.retLast = <<>>],
          err |-> "nil"]
  ELSE IF b.nUnread
    THEN [b |-> [b EXCEPT !.npos = b.npos - 1, !.nUnread = FALSE], err |-> "nil"]
  ELSE [b |-> b, err |-> "invalidUnread"]

\* reader.go:200-211
ReturnAndSkipOne(b) ==
  [b |-> [b EXCEPT !.ret = SubSeq(b.bufBefore, 2, Len(b.bufBefore)),
                   !.retLast = IF b.bufBefore = <<>> THEN <<>>
                               ELSE <<b.bufBefore[1]>>,
                   !.bufBefore = <<>>],
   err |-> IF b.bufBefore = <<>> THEN "EOF" ELSE "nil"]

\* reader.go:213-225
ReturnAndSkip(b, offset) ==
  [b |-> [b EXCEPT !.ret = SubSeq(b.bufBefore, offset + 1, Len(b.bufBefore)),
                   !.retLast = <<>>,
                   !.bufBefore = <<>>],
   err |-> IF offset > Len(b.bufBefore) THEN "EOF" ELSE "nil"]

\* Variant of MarkStart that keeps what was captured before the opener.
MarkStartKeeping(b) == [b EXCEPT !.enableReturn = TRUE]

\* reader.go:227-232
MarkStart(b) == [b EXCEPT !.enableReturn = TRUE, !.bufBefore = <<>>]

\* reader.go:234-242; MarkEndPanics is the panic of line 239-241.
MarkEnd(b) == [b EXCEPT !.enableReturn = FALSE]

MarkEndPanics(b) == Len(b.bufBefore) # 0

\* The stream offset of the next byte a read yields, as long as the replay
\* buffer holds a suffix of what was read from src.
Pos(b) == b.npos - Len(b.ret)

(***************************************************************************)
(* Reader, reader.go:48-123.  One action is one pass through the loop of   *)
(* lines 55-116 up to the point where control leaves Reader (the callback  *)
(* at line 104) or the loop starts over.                                   *)
(***************************************************************************)

\* Variant of IsOpener that leaves objects out.
OnlyArrays(r) == r = openArray

\* reader.go:63
IsOpener(r) == r = openArray \/ r = openObject

\* Variants of the mappings below: the error is handed on as it is, the loop
\* goes on whatever the callback returned, the callback's error is dropped.
KeepError(e) == e

KeepScanning(e) == "scan"

DropError(e) == "nil"

\* reader.go:118-122
ReaderResult(e) == IF e = "EOF" THEN "nil" ELSE e

\* reader.go:105-111: what Reader returns when the callback returned e # nil.
CallbackResult(e) == IF e = "ErrStop" THEN "nil" ELSE e

\* reader.go:104-114: where Reader goes after the callback returned e.
AfterCallback(e) == IF e = "nil" THEN "scan" ELSE "done"

\* What one pass through the loop of reader.go:55-116 comes to, up to the
\* callback: kind is "end" (the loop is left), "skip" (no opener), "reject"
\* or "deliver"; b is the buffer afterwards, err the error in hand, res what
\* readJSObject returned for the opener at source offset opener.
Outcome(kind, b, e, res, opener) ==
  [kind |-> kind, b |-> b, err |-> e, res |-> res, opener |-> opener]

\* reader.go:86-91 and 98-101
IterReturned(kind, back, res, opener) ==
  Outcome(kind, back.b, back.err, res, opener)

\* Variant of ReturnAndSkipOne that skips nothing.
ReturnAndSkipNone(b) ==
  [b |-> [b EXCEPT !.ret = b.bufBefore, !.retLast = <<>>, !.bufBefore = <<>>],
   err |-> "nil"]

\* Variant of ReturnAndSkip that ignores the offset.
ReturnToMark(b, offset) ==
  [b |-> [b EXCEPT !.ret = b.bufBefore, !.retLast = <<>>, !.bufBefore = <<>>],
   err |-> "nil"]

\* reader.go:86
SkipOpener(b) == ReturnAndSkipOne(b)

\* Variant of ReturnAndSkip that leaves bufBefore as it is.
SkipKeepingCapture(b, offset) ==
  [b |-> [b EXCEPT !.ret = SubSeq(b.bufBefore, offset + 1, Len(b.bufBefore)),
                   !.retLast = <<>>],
   err |-> IF offset > Len(b.bufBefore) THEN "EOF" ELSE "nil"]

\* reader.go:98
SkipValue(b, readByteCount) == ReturnAndSkip(b, readByteCount)

\* Variant of the gate at reader.go:83 without the validator.
NormaliserAccepted(res) == res.err = "nil"

\* reader.go:83: the candidate is delivered.
Accepted(res) == res.err = "nil" /\ Valid(res.output)

\* reader.go:83-101
IterGate(b, res, opener, ok) ==
  IF ok
    THEN IterReturned("deliver", SkipValue(b, res.readInputBytes), res, opener)
    ELSE IterReturned("reject", SkipOpener(b), res, opener)

IterParsed(b, res, opener) == IterGate(b, res, opener, Accepted(res))

\* reader.go:81 and 277: readJSObject on everything NewInput could read; a
\* read error leaves the lexer an empty input whose Err() is that error.
IterReadAll(ra, opener) ==
  IterParsed(ra.b,
             IF ra.err = "readErr" THEN JSReject("readErr")
             ELSE readJSObject(ra.data),
             opener)

\* reader.go:66-81
IterUnread(un) ==
  IF un.err # "nil" THEN Outcome("end", un.b, un.err, JSReject("nil"), -1)
  ELSE IterReadAll(ReadAll(MarkStart(un.b)), Pos(un.b))

\* reader.go:57-66
IterRune(sc) ==
  IF sc.err # "nil" THEN Outcome("end", sc.b, sc.err, JSReject("nil"), -1)
  ELSE IF ~IsOpener(sc.r) THEN Outcome("skip", sc.b, "nil", JSReject("nil"), -1)
  ELSE IterUnread(UnreadRune(sc.b))

Iteration(b) == IterRune(ReadRune(b))

\* reader.go:57-69: the read, or the unread at an opener, ends the loop.
LoopLeft(sc) ==
  sc.err # "nil" \/ (IsOpener(sc.r) /\ UnreadRune(sc.b).err # "nil")

\* reader.go:63: the rune read opens nothing.
NoOpener(sc) == sc.err = "nil" /\ ~IsOpener(sc.r)

ProbeRecord(it) ==
  [opener |-> it.opener, ok |-> it.kind = "deliver",
   readByteCount |-> it.res.readInputBytes, lexed |-> it.res.lexed,
   err |-> it.res.err]

NoProbe == [opener |-> -1, ok |-> FALSE, readByteCount |-> 0, lexed |-> 0,
            err |-> "nil"]

\* reader.go:57-60, 66-69 and 118-122: a read ends the loop.
ScanEndWith(it) ==
  /\ it.kind = "end"
  /\ SetBuf(it.b)
  /\ err' = ReaderResult(it.err)
  /\ pc' = "done"
  /\ last' = it.err
  /\ UNCHANGED <<srcVars, msg, calls, starts, probe, run, markVars>>

ScanEnd ==
  /\ pc = "scan" /\ LoopLeft(ReadRune(Buf))
  /\ ScanEndWith(Iteration(Buf))
  /\ UNCHANGED objVars

\* reader.go:57-63: a rune that opens nothing.
ScanSkipWith(it) ==
  /\ it.kind = "skip"
  /\ SetBuf(it.b)
  /\ last' = "skip"
  /\ UNCHANGED <<srcVars, pc, msg, err, calls, starts, probe, run, markVars>>

ScanSkip ==
  /\ pc = "scan" /\ NoOpener(ReadRune(Buf))
  /\ ScanSkipWith(Iteration(Buf))
  /\ UNCHANGED objVars

\* reader.go:63-92: the candidate at an opener is rejected.
ProbeRejectWith(it) ==
  /\ it.kind = "reject"
  /\ SetBuf(it.b)
  /\ pc' = IF it.err # "nil" THEN "done" ELSE "scan"
  /\ err' = IF it.err # "nil" THEN ReaderResult(it.err) ELSE err
  /\ probe' = ProbeRecord(it)
  /\ last' = "reject"
  /\ UNCHANGED <<srcVars, msg, calls, starts, run, markVars>>

ProbeReject == pc = "scan" /\ ProbeRejectWith(Iteration(Buf)) /\ UNCHANGED objVars

\* reader.go:63-104: the candidate at an opener is handed to the callback.
ProbeDeliverWith(it) ==
  /\ it.kind = "deliver"
  /\ SetBuf(it.b)
  /\ IF it.err # "nil"
       THEN /\ pc' = "done"
            /\ err' = ReaderResult(it.err)
            /\ UNCHANGED <<msg, calls, starts>>
       ELSE /\ pc' = "callback"
            /\ err' = err
            /\ msg' = it.res.output
            /\ calls' = Append(calls, it.res.output)
            /\ starts' = Append(starts, it.opener)
  /\ probe' = ProbeRecord(it)
  /\ last' = "deliver"
  /\ UNCHANGED <<srcVars, run, markVars>>

ProbeDeliver == pc = "scan" /\ ProbeDeliverWith(Iteration(Buf)) /\ UNCHANGED objVars

\* reader.go:104-114: the callback returns e.
CallbackReturns(e) ==
  /\ pc = "callback"
  /\ IF e = "nil"
       THEN /\ SetBuf(MarkEnd(Buf))
            /\ pc' = IF MarkEndPanics(Buf) THEN "panic" ELSE AfterCallback(e)
            /\ err' = err
       ELSE /\ pc' = AfterCallback(e)
            /\ err' = CallbackResult(e)
            /\ UNCHANGED bufVars
  /\ msg' = <<>>
  /\ last' = e
  /\ UNCHANGED <<srcVars, calls, starts, probe, run, markVars>>

CallbackNil == CallbackReturns("nil") /\ UNCHANGED objVars

CallbackStop == CallbackReturns("ErrStop") /\ UNCHANGED objVars

CallbackError == CallbackReturns("cbErr") /\ UNCHANGED objVars

NoRead == [at |-> -1, data |-> <<>>, err |-> "nil"]

\* A buffer made by newResettableBuffer over src0, reader.go:51; where is
\* "scan" for Reader's loop and "buffer" for a caller of the buffer itself.
Start(src0, failAt0, sticky0, where) ==
  /\ src = src0
  /\ failAt = failAt0
  /\ sticky = sticky0
  /\ npos = newResettableBuffer.npos
  /\ nUnread = newResettableBuffer.nUnread
  /\ failed = newResettableBuffer.failed
  /\ ret = newResettableBuffer.ret
  /\ retLast = newResettableBuffer.retLast
  /\ bufBefore = newResettableBuffer.bufBefore
  /\ enableReturn = newResettableBuffer.enableReturn
  /\ pc = where
  /\ msg = <<>>
  /\ err = "nil"
  /\ calls = <<>>
  /\ starts = <<>>
  /\ probe = NoProbe
  /\ run = 0
  /\ last = "init"
  /\ got = NoRead
  /\ mark = -1
  /\ expect = 0

\* A finished Reader's delivered value is passed to Reader again as the
\* whole input.
FeedBack ==
  /\ pc = "done" /\ run = 0
  /\ \E k \in 1..Len(calls) :
       /\ src' = calls[k]
       /\ failAt' = NoFail
       /\ sticky' = FALSE
       /\ SetBuf(newResettableBuffer)
       /\ pc' = "scan"
       /\ msg' = <<>>
       /\ err' = "nil"
       /\ calls' = <<>>
       /\ starts' = <<>>
       /\ probe' = NoProbe
       /\ run' = 1
       /\ last' = "init"
       /\ given' = <<[at |-> 0, text |-> calls[k], compact |-> calls[k]]>>
       /\ UNCHANGED <<markVars, objVars>>

(***************************************************************************)
(* The buffer driven directly, as TestResettableRuneBuffer does.  expect   *)
(* is the stream offset the next read must yield under the round-trip      *)
(* contract, -1 once the calls made are outside of it; mark is the offset  *)
(* of a MarkStart followed by successful reads only, -1 without one.       *)
(***************************************************************************)

\* The most bytes bufBefore is let to hold.
MaxBuf == 4

\* The largest len(p) and offset tried.
MaxRead == 3

readerVars == <<pc, msg, err, calls, starts, probe, run, last, walk, unm>>

\* The ledger after a read that returned data and e.
AfterRead(data, e) ==
  /\ got' = IF expect >= 0 THEN [at |-> expect, data |-> data, err |-> e]
            ELSE NoRead
  /\ expect' = IF expect >= 0 THEN expect + Len(data) ELSE expect
  /\ mark' = IF e = "nil" THEN mark ELSE -1

BufReadWith(r) == SetBuf(r.b) /\ AfterRead(r.data, r.err)

\* Read with len(p) = n
BufRead ==
  /\ pc = "buffer" /\ Len(bufBefore) < MaxBuf
  /\ \E n \in 1..MaxRead : BufReadWith(Read(Buf, n))
  /\ UNCHANGED <<srcVars, readerVars>>

BufReadRuneWith(r) ==
  SetBuf(r.b) /\ AfterRead(IF r.err = "nil" THEN <<r.r>> ELSE <<>>, r.err)

BufReadRune ==
  /\ pc = "buffer" /\ Len(bufBefore) < MaxBuf
  /\ BufReadRuneWith(ReadRune(Buf))
  /\ UNCHANGED <<srcVars, readerVars>>

BufUnreadRune ==
  /\ pc = "buffer"
  /\ SetBuf(UnreadRune(Buf).b)
  /\ expect' = -1
  /\ mark' = -1
  /\ got' = NoRead
  /\ UNCHANGED <<srcVars, readerVars>>

BufMarkStart ==
  /\ pc = "buffer"
  /\ SetBuf(MarkStart(Buf))
  /\ mark' = expect
  /\ UNCHANGED <<srcVars, readerVars, got, expect>>

\* ReturnAndSkip(k); the contract speaks of 0 <= k <= N, N = expect - mark.
BufReturnAndSkip ==
  /\ pc = "buffer"
  /\ \E k \in 0..MaxRead :
       /\ SetBuf(ReturnAndSkip(Buf, k).b)
       /\ expect' = IF mark >= 0 /\ mark + k <= expect THEN mark + k ELSE -1
  /\ mark' = -1
  /\ got' = NoRead
  /\ UNCHANGED <<srcVars, readerVars>>

BufReturnAndSkipOne ==
  /\ pc = "buffer"
  /\ SetBuf(ReturnAndSkipOne(Buf).b)
  /\ expect' = -1
  /\ mark' = -1
  /\ got' = NoRead
  /\ UNCHANGED <<srcVars, readerVars>>

BufMarkEnd ==
  /\ pc = "buffer"
  /\ SetBuf(MarkEnd(Buf))
  /\ pc' = IF MarkEndPanics(Buf) THEN "panic" ELSE pc
  /\ mark' = -1
  /\ UNCHANGED <<srcVars, msg, err, calls, starts, probe, run, last, got, expect, objVars>>

(***************************************************************************)
(* Objects, objects.go:70-169.  keyFunc is the callback Objects hands to   *)
(* Reader; the walk of one delivered value is kept as the list todo of the *)
(* raw values keyFunc has still to be called with, first one first.  One   *)
(* action runs keyFunc up to the point where control leaves it: the        *)
(* Callback of an option is invoked, or keyFunc returns to Reader.         *)
(***************************************************************************)

\* The most options in o.
MaxOptions == 2

\* The bytes of keys in the order sort.Strings compares them.
ByteOrder ==
  <<"0", "1", "2", "3", "4", "5", "6", "7", "8", "9",
    "a", "b", "c", "d", "e", "f", "g", "h", "i", "j", "k", "l", "m",
    "n", "o", "p", "q", "r", "s", "t", "u", "v", "w", "x", "y", "z">>

ByteRank(c) ==
  IF \E i \in DOMAIN ByteOrder : ByteOrder[i] = c
    THEN CHOOSE i \in DOMAIN ByteOrder : ByteOrder[i] = c
    ELSE 0

RECURSIVE Less(_, _)
\* x < y for Go strings
Less(x, y) ==
  IF y = <<>> THEN FALSE
  ELSE IF x = <<>> THEN TRUE
  ELSE IF Head(x) = Head(y) THEN Less(Tail(x), Tail(y))
  ELSE ByteRank(Head(x)) < ByteRank(Head(y))

RECURSIVE Unquote(_)
\* The text of a JSON string between its quotes, escapes resolved.
Unquote(text) ==
  IF text = <<>> THEN <<>>
  ELSE IF Head(text) = "\\" /\ Len(text) >= 2
    THEN <<text[2]>> \o Unquote(SubSeq(text, 3, Len(text)))
  ELSE <<Head(text)>> \o Unquote(Tail(text))

RECURSIVE Elements(_, _)
\* json.Unmarshal(b, &arr), objects.go:75-81: the raw elements of the array
\* b from index i on, i behind '[' or ','.
Elements(b, i) ==
  LET j == SkipWS(b, i)
      e == JValueEnd(b, j)
      k == SkipWS(b, e)
  IN IF At(b, j) = "]" \/ e = 0 THEN <<>>
     ELSE <<SubSeq(b, j, e - 1)>>
          \o (IF At(b, k) = "," THEN Elements(b, k + 1) ELSE <<>>)

RECURSIVE Members(_, _)
\* The members of the object b from index i on, in the order of the text.
Members(b, i) ==
  LET k == SkipWS(b, i)
      ke == IF At(b, k) = "\"" THEN JStringEnd(b, k + 1) ELSE 0
      v == SkipWS(b, SkipWS(b, ke) + 1)
      e == IF ke = 0 THEN 0 ELSE JValueEnd(b, v)
      j == SkipWS(b, e)
  IN IF e = 0 THEN <<>>
     ELSE <<[key |-> Unquote(SubSeq(b, k + 1, ke - 2)),
             value |-> SubSeq(b, v, e - 1)]>>
          \o (IF At(b, j) = "," THEN Members(b, j + 1) ELSE <<>>)

\* json.Unmarshal(b, &m), objects.go:93-98: the last member of a key wins.
MapOf(ms) ==
  [k \in {ms[i].key : i \in DOMAIN ms} |->
     ms[CHOOSE i \in DOMAIN ms :
          /\ ms[i].key = k
          /\ \A j \in DOMAIN ms : ms[j].key = k => j <= i].value]

DecodeMap(b) == MapOf(Members(b, 2))

RECURSIVE SortedDown(_)
\* Variant of SortStrings: the keys in descending order.
SortedDown(keys) ==
  IF keys = {} THEN <<>>
  ELSE LET first == CHOOSE k \in keys : \A x \in keys : ~Less(k, x)
       IN <<first>> \o SortedDown(keys \ {first})

RECURSIVE SortStrings(_)
\* sort.Strings(keys), objects.go:135-140
SortStrings(keys) ==
  IF keys = {} THEN <<>>
  ELSE LET first == CHOOSE k \in keys : \A x \in keys : ~Less(x, k)
       IN <<first>> \o SortStrings(keys \ {first})

\* objects.go:142-147: the values keyFunc is called with after an object.
ChildrenIn(m, keys) == [i \in DOMAIN keys |-> m[keys[i]]]

Children(m) == ChildrenIn(m, SortStrings(DOMAIN m))

\* Variants of match and of the choice among the options.
matchAny(opt, m) == \E i \in DOMAIN opt.Keys : opt.Keys[i] \in DOMAIN m

HighestOf(candidates) ==
  CHOOSE i \in candidates : \A j \in candidates : j <= i

\* objects.go:46-53
match(opt, m) == \A i \in DOMAIN opt.Keys : opt.Keys[i] \in DOMAIN m

\* objects.go:101-130: the loop over o stops at the first option that is
\* not satisfied and matches.
LowestOf(candidates) ==
  CHOOSE i \in candidates : \A j \in candidates : i <= j

Candidates(o, satisfiedCallbacks, m) ==
  {i \in DOMAIN o : i \notin satisfiedCallbacks /\ match(o[i], m)}

FirstMatchOf(candidates) ==
  IF candidates = {} THEN 0 ELSE LowestOf(candidates)

FirstMatch(w, m) == FirstMatchOf(Candidates(w.o, w.satisfiedCallbacks, m))

\* objects.go:72-77: the state of one call of Objects with options o.  offer
\* is the index of the option whose Callback runs on b, 0 when none does;
\* log lists the objects keyFunc came to, with the option invoked (0: none),
\* what its Callback returned, and satisfiedCallbacks at that time.
NewWalk(o) ==
  [o |-> o, satisfiedCallbacks |-> {}, satisfiedCount |-> 0, todo |-> <<>>,
   offer |-> 0, b |-> <<>>, log |-> <<>>, result |-> "running"]

\* No call of Objects.
NoWalk == <<>>

Visit(w, b, opt, returned) ==
  [b |-> b, opt |-> opt, ret |-> returned, satisfied |-> w.satisfiedCallbacks]

Logged(w, returned) ==
  [w EXCEPT !.log = Append(@, Visit(w, w.b, w.offer, returned))]

RECURSIVE keyFunc(_), OnObject(_, _, _, _, _)
\* objects.go:79-150, from the call with Head(w.todo) to the next Callback
\* or to the return of the outermost keyFunc.
keyFunc(w) ==
  IF w.todo = <<>> THEN w
  ELSE IF Head(w.todo)[1] = openArray
    THEN keyFunc([w EXCEPT !.todo = Elements(Head(w.todo), 2) \o Tail(w.todo)])
  ELSE IF Head(w.todo)[1] = openObject
    THEN OnObject(w, Head(w.todo), Tail(w.todo), DecodeMap(Head(w.todo)),
                  FirstMatch(w, DecodeMap(Head(w.todo))))
  ELSE keyFunc([w EXCEPT !.todo = Tail(w.todo)])

\* objects.go:101-147 for the object b decoded as m, i the option found.
OnObject(w, b, rest, m, i) ==
  IF i # 0
    THEN [w EXCEPT !.offer = i, !.b = b, !.todo = rest]
    ELSE keyFunc([w EXCEPT !.todo = Children(m) \o rest,
                           !.log = Append(@, Visit(w, b, 0, "none"))])

\* Variant of Resume that leaves the children of b out.
ResumeBesideChildren(w) == keyFunc([w EXCEPT !.offer = 0, !.b = <<>>])

\* objects.go:132-147: the Callback is through, the children of b follow.
Resume(w) ==
  keyFunc([w EXCEPT !.offer = 0, !.b = <<>>,
                    !.todo = Children(DecodeMap(w.b)) \o w.todo])

\* Variant of Satisfy that forgets the option.
SatisfyNone(satisfiedCallbacks, i) == satisfiedCallbacks

\* objects.go:114
Satisfy(satisfiedCallbacks, i) == satisfiedCallbacks \cup {i}

\* Variant of Satisfied that leaves the count alone.
NotCounted(w) == [w EXCEPT !.satisfiedCallbacks = Satisfy(@, w.offer)]

\* Variant of Satisfied that marks every option.
SatisfiedAll(w) ==
  [w EXCEPT !.satisfiedCallbacks = DOMAIN w.o, !.satisfiedCount = @ + 1]

\* objects.go:112-116
Satisfied(w) ==
  [w EXCEPT !.satisfiedCallbacks = Satisfy(@, w.offer),
            !.satisfiedCount = @ + 1]

\* Variant of RequiredMissing that never misses an option.
NoneMissing(w) == FALSE

\* objects.go:157-165
RequiredMissing(w) ==
  \E i \in DOMAIN w.o : w.o[i].Required /\ i \notin w.satisfiedCallbacks

\* objects.go:153-168: what Objects returns when Reader returned e.
ObjectsResult(w, e) ==
  IF e = "nil" /\ w.satisfiedCount # Len(w.o) /\ RequiredMissing(w)
    THEN "ErrCallbackNeverCalled"
    ELSE e

Returned(w, e) == [w EXCEPT !.result = ObjectsResult(w, e), !.offer = 0]

\* objects.go:153 with reader.go:57-60 and 118-122: Reader comes to the end
\* of the input and Objects returns.
ObjectsEndWith(it) ==
  /\ ScanEndWith(it)
  /\ walk' = Returned(walk, ReaderResult(it.err))
  /\ UNCHANGED unm

ObjectsEnd ==
  pc = "scan" /\ LoopLeft(ReadRune(Buf)) /\ ObjectsEndWith(Iteration(Buf))

\* reader.go:63-92 under Objects.
ObjectsRejectWith(it) ==
  /\ ProbeRejectWith(it)
  /\ walk' = IF it.err # "nil" THEN Returned(walk, ReaderResult(it.err))
             ELSE walk
  /\ UNCHANGED unm

ObjectsReject == pc = "scan" /\ ObjectsRejectWith(Iteration(Buf))

\* reader.go:104 with objects.go:79: Reader calls keyFunc with the value.
KeyFuncCalledWith(it) ==
  /\ ProbeDeliverWith(it)
  /\ walk' = IF it.err # "nil" THEN Returned(walk, ReaderResult(it.err))
             ELSE keyFunc([walk EXCEPT !.todo = <<it.res.output>>])
  /\ UNCHANGED unm

KeyFuncCalled == pc = "scan" /\ KeyFuncCalledWith(Iteration(Buf))

\* objects.go:149: the outermost keyFunc returns nil to Reader.
KeyFuncReturns ==
  /\ walk.offer = 0
  /\ CallbackReturns("nil")
  /\ UNCHANGED objVars

\* The steps of Objects that leave Reader where it is.
InKeyFunc(w) ==
  /\ walk' = w
  /\ UNCHANGED <<srcVars, bufVars, pc, msg, err, calls, starts, probe, run,
                 last, markVars, unm>>

\* objects.go:110-111 and 128-147: the Callback of the option returns nil.
OptionNil ==
  /\ pc = "callback" /\ walk.offer # 0
  /\ InKeyFunc(Resume(Logged(walk, "nil")))

\* objects.go:111-123: the Callback returns ErrStop; keyFunc returns ErrStop
\* to Reader when that satisfied the last option.
OptionStopWith(w) ==
  IF w.satisfiedCount = Len(w.o)
    THEN /\ CallbackReturns("ErrStop")
         /\ walk' = Returned(w, CallbackResult("ErrStop"))
         /\ UNCHANGED unm
    ELSE InKeyFunc(Resume(w))

OptionStop ==
  /\ pc = "callback" /\ walk.offer # 0
  /\ OptionStopWith(Satisfied(Logged(walk, "ErrStop")))

\* objects.go:124-126: the Callback returns another error.
OptionError ==
  /\ pc = "callback" /\ walk.offer # 0
  /\ CallbackReturns("cbErr")
  /\ walk' = Returned(Logged(walk, "cbErr"), CallbackResult("cbErr"))
  /\ UNCHANGED unm

(***************************************************************************)
(* Unmarshal, objects.go:15-30.  The pointer is taken to point to a struct *)
(* with the int fields A (json "a") and B (json "b"); verify is a closure  *)
(* of the caller, so what it returns is open.                              *)
(***************************************************************************)

\* The most invocations of one callback.
MaxInvocations == 3

\* json.Unmarshal of the raw value v into an int field.
IsInt(v) == v # <<>> /\ \A k \in 1..Len(v) : v[k] \in Digits

RECURSIVE IntValue(_, _)
\* The int the digits v decode to.
IntValue(v, acc) ==
  IF v = <<>> THEN acc ELSE IntValue(Tail(v), acc * 10 + DigitVal(Head(v)))

IsNull(v) == v = <<"n", "u", "l", "l">>

\* encoding/json on one member: a field that is not in the struct is
\* skipped, null leaves the field alone, a value that is no integer is a
\* type error that leaves the field alone.
SetField(c, key, v) ==
  IF key \notin {<<"a">>, <<"b">>} \/ ~IsInt(v) THEN c
  ELSE IF key = <<"a">> THEN [c EXCEPT !.A = IntValue(v, 0)]
  ELSE [c EXCEPT !.B = IntValue(v, 0)]

FieldError(key, v) == key \in {<<"a">>, <<"b">>} /\ ~IsInt(v) /\ ~IsNull(v)

RECURSIVE DecodeMembers(_, _, _)
\* The decoder goes on behind a type error and reports the first one.
DecodeMembers(c, ms, failed0) ==
  IF ms = <<>> THEN [container |-> c, err |-> failed0]
  ELSE DecodeMembers(SetField(c, Head(ms).key, Head(ms).value), Tail(ms),
                     failed0 \/ FieldError(Head(ms).key, Head(ms).value))

\* json.Unmarshal(b, pointer), objects.go:18
UnmarshalInto(c, b) ==
  IF b[1] = openObject THEN DecodeMembers(c, Members(b, 2), FALSE)
  ELSE [container |-> c, err |-> TRUE]

\* The callback as Unmarshal returns it.  stopped: it has returned ErrStop;
\* atStop: the container and the calls of verify when it did so first.
NewUnmarshal ==
  [container |-> [A |-> 0, B |-> 0], verifyCalls |-> 0, invocations |-> 0,
   stopped |-> FALSE, ret |-> "none",
   atStop |-> [container |-> [A |-> 0, B |-> 0], verifyCalls |-> 0]]

\* No callback made by Unmarshal.
NoUnmarshal == <<>>

\* Caller and Reader are left alone by the callback.
InCallback(u) ==
  /\ unm' = u
  /\ UNCHANGED <<srcVars, bufVars, pc, msg, err, calls, starts, probe, run,
                 last, markVars, walk>>

Invoked(u, c, verified, returned) ==
  [u EXCEPT !.container = c,
            !.verifyCalls = IF verified THEN @ + 1 ELSE @,
            !.invocations = @ + 1,
            !.ret = returned,
            !.stopped = @ \/ returned = "ErrStop",
            !.atStop = IF ~u.stopped /\ returned = "ErrStop"
                         THEN [container |-> c, verifyCalls |-> u.verifyCalls + 1]
                         ELSE @]

\* objects.go:17-21: json.Unmarshal fails and the callback returns nil.
UnmarshalFailsWith(d) ==
  /\ d.err
  /\ InCallback(Invoked(unm, d.container, FALSE, "nil"))

\* objects.go:17-26: verify returns true and the callback returns ErrStop.
VerifyTrueWith(d) ==
  /\ ~d.err
  /\ InCallback(Invoked(unm, d.container, TRUE, "ErrStop"))

\* objects.go:17-29: verify returns false and the callback returns nil.
VerifyFalseWith(d) ==
  /\ ~d.err
  /\ InCallback(Invoked(unm, d.container, TRUE, "nil"))

\* The values the callback is invoked with.
UnmarshalInputs ==
  { <<"{", "}">>,
    <<"{", "\"", "a", "\"", ":", "1", "}">>,
    <<"{", "\"", "a", "\"", ":", "2", "}">>,
    <<"{", "\"", "b", "\"", ":", "1", "}">>,
    <<"{", "\"", "b", "\"", ":", "2", "}">>,
    <<"{", "\"", "a", "\"", ":", "1", ",", "\"", "b", "\"", ":", "2", "}">>,
    <<"{", "\"", "a", "\"", ":", "\"", "x", "\"", ",", "\"", "b", "\"", ":", "1", "}">>,
    <<"{", "\"", "c", "\"", ":", "1", "}">>,
    <<"[", "1", "]">> }

CanInvoke == pc = "unmarshal" /\ unm.invocations < MaxInvocations

UnmarshalFails ==
  /\ CanInvoke
  /\ \E b \in UnmarshalInputs : UnmarshalFailsWith(UnmarshalInto(unm.container, b))

VerifyTrue ==
  /\ CanInvoke
  /\ \E b \in UnmarshalInputs : VerifyTrueWith(UnmarshalInto(unm.container, b))

VerifyFalse ==
  /\ CanInvoke
  /\ \E b \in UnmarshalInputs : VerifyFalseWith(UnmarshalInto(unm.container, b))

(***************************************************************************)
(* Inputs and specifications                                               *)
(***************************************************************************)

\* The longest input.
MaxLen == 5

\* The longest input of a source that fails, and of a buffer driven directly.
MaxErrLen == 3

\* The bytes inputs are made of.
Alphabet == {"{", "}", "[", "]", ",", ":", "/", "a"}

SeqsUpTo(S, n) == UNION {[1..k -> S] : k \in 0..n}

\* Reader and the buffer used without Objects and Unmarshal.
NoCaller == walk = NoWalk /\ unm = NoUnmarshal

Init ==
  /\ \E s \in SeqsUpTo(Alphabet, MaxLen) : Start(s, NoFail, FALSE, "scan")
  /\ given = <<>>
  /\ NoCaller

Next ==
  \/ ScanEnd
  \/ ScanSkip
  \/ ProbeReject
  \/ ProbeDeliver
  \/ CallbackNil
  \/ CallbackStop
  \/ CallbackError
  \/ FeedBack

Spec == Init /\ [][Next]_vars

\* Reader stands in its loop or in the callback.
Busy == pc \in {"scan", "callback"}

\* reader.go:63-81: the loop stands before an opener it can put back.
AtCandidate ==
  pc = "scan" /\ ~LoopLeft(ReadRune(Buf)) /\ ~NoOpener(ReadRune(Buf))

\* Reader is one sequential loop and the callback returns, so a pass that
\* can be made is made.  The last conjunct is weak fairness of the probe
\* by its definition, with AtCandidate for ENABLED: at an opener the
\* candidate is either rejected or delivered.
Fairness ==
  /\ WF_vars(CallbackNil \/ CallbackStop \/ CallbackError)
  /\ WF_vars(ScanSkip)
  /\ WF_vars(ScanEnd)
  /\ ([]<>(~AtCandidate) \/ []<><<ProbeReject \/ ProbeDeliver>>_vars)

InitFair ==
  /\ \E s \in SeqsUpTo(Alphabet, MaxErrLen) : Start(s, NoFail, FALSE, "scan")
  /\ given = <<>>
  /\ NoCaller

SpecFair == InitFair /\ [][Next]_vars /\ Fairness

\* The longest text before the input proper, and the longest such input.
MaxPrefix == 2

MaxSuffix == 4

\* An input S behind a text P that holds no opener; given records S and
\* where it starts.
InitPrefixed ==
  \E P \in SeqsUpTo({"a", "]"}, MaxPrefix) :
    \E S \in SeqsUpTo({"[", "]", "{", "}", "a"}, MaxSuffix) :
      /\ Start(P \o S, NoFail, FALSE, "scan")
      /\ given = <<[at |-> Len(P), text |-> S, compact |-> S]>>
      /\ NoCaller

SpecPrefixed == InitPrefixed /\ [][Next]_vars

\* The source fails at offset f, once or for good.
InitErr ==
  \E s \in SeqsUpTo(Alphabet, MaxErrLen) :
    \E f \in 0..Len(s) : \E st \in BOOLEAN :
      Start(s, f, st, "scan") /\ given = <<>> /\ NoCaller

SpecErr == InitErr /\ [][Next]_vars

InitBuf ==
  \E s \in SeqsUpTo({"a", "b", "c"}, MaxErrLen) :
    Start(s, NoFail, FALSE, "buffer") /\ given = <<>> /\ NoCaller

NextBuf ==
  \/ BufMarkStart
  \/ BufRead
  \/ BufReadRune
  \/ BufUnreadRune
  \/ BufReturnAndSkip
  \/ BufReturnAndSkipOne
  \/ BufMarkEnd

SpecBuf == InitBuf /\ [][NextBuf]_vars

(***************************************************************************)
(* Inputs that hold strict JSON values only, as the strict-JSON entries of *)
(* testData do (reader_test.go:498-525).  text is a value as the input     *)
(* holds it, compact the same value without the whitespace between its     *)
(* tokens.                                                                 *)
(***************************************************************************)

\* The most top-level values of an input.
MaxValues == 2

JSONText(text, compact) == [text |-> text, compact |-> compact]

Same(text) == JSONText(text, text)

One == <<"1">>

\* the string " "
Blank == <<"\"", " ", "\"">>

ArrayOf(e) ==
  JSONText(<<"[">> \o e.text \o <<"]">>, <<"[">> \o e.compact \o <<"]">>)

PairOf(e, sp, f) ==
  JSONText(<<"[">> \o e.text \o <<",">> \o sp \o f.text \o <<"]">>,
           <<"[">> \o e.compact \o <<",">> \o f.compact \o <<"]">>)

ObjectOf(sp, e) ==
  JSONText(<<"{", "\"", "a", "\"", ":">> \o sp \o e.text \o <<"}">>,
           <<"{", "\"", "a", "\"", ":">> \o e.compact \o <<"}">>)

EmptySpaced == JSONText(<<"[", " ", "]">>, <<"[", "]">>)

PairSpaced == PairOf(Same(One), <<" ">>, Same(One))

ObjectSpaced == ObjectOf(<<" ">>, Same(Blank))

FlatValues ==
  {Same(<<"[", "]">>), Same(<<"{", "}">>), EmptySpaced, PairSpaced,
   ObjectSpaced, ArrayOf(Same(One)), ArrayOf(Same(Blank)),
   ObjectOf(<<>>, Same(One))}

NestedValues ==
  {ArrayOf(v) : v \in {EmptySpaced, ObjectSpaced}}
  \cup {ObjectOf(<<" ">>, v) : v \in {PairSpaced, ObjectSpaced}}

StrictValues == FlatValues \cup NestedValues

\* Text without '{' and '[' before and between the values; the opener
\* without a closer is the one leading text that makes Reader try, and give
\* up, a candidate that is none of the values.
Leading == {<<>>, <<"]">>, <<"[">>}

Between == {<<>>, <<"a", "\"">>}

RECURSIVE Joined(_)
\* The input made of the parts ps, each a separator and a value.
Joined(ps) ==
  IF ps = <<>> THEN <<>> ELSE Head(ps).sep \o Head(ps).text \o Joined(Tail(ps))

\* Where each value starts in the input, and what it is.
Placed(ps) ==
  [k \in DOMAIN ps |->
     [at |-> Len(Joined(SubSeq(ps, 1, k - 1))) + Len(ps[k].sep),
      text |-> ps[k].text, compact |-> ps[k].compact]]

Part(sep, v) == [sep |-> sep, text |-> v.text, compact |-> v.compact]

RECURSIVE InputsOf(_)
\* The inputs of at most n values.
InputsOf(n) ==
  IF n = 0 THEN {<<>>}
  ELSE InputsOf(n - 1)
       \cup {Append(ps, Part(sep, v)) :
               ps \in {p \in InputsOf(n - 1) : Len(p) = n - 1},
               sep \in IF n = 1 THEN Leading ELSE Between,
               v \in StrictValues}

InitJSON ==
  /\ \E ps \in InputsOf(MaxValues) :
       Start(Joined(ps), NoFail, FALSE, "scan") /\ given = Placed(ps)
  /\ NoCaller

SpecJSON == InitJSON /\ [][Next]_vars

(***************************************************************************)
(* Inputs and options of Objects, after objects_test.go: objects with the  *)
(* keys a and b, nested in objects and arrays, and options whose Keys are  *)
(* drawn from these keys.                                                  *)
(***************************************************************************)

KeyA == <<"a">>

KeyB == <<"b">>

\* "key":value
Member(key, v) == <<"\"">> \o key \o <<"\"", ":">> \o v

ObjectWith(key, v) == <<"{">> \o Member(key, v) \o <<"}">>

ObjectWithBoth(k1, v1, k2, v2) ==
  <<"{">> \o Member(k1, v1) \o <<",">> \o Member(k2, v2) \o <<"}">>

ObjA == ObjectWith(KeyA, One)

ObjB == ObjectWith(KeyB, One)

ObjAB == ObjectWithBoth(KeyA, One, KeyB, One)

FlatObjects == {<<"{", "}">>, ObjA, ObjB, ObjAB}

KeyedObjects == {ObjA, ObjB}

\* The inputs of Objects for a set of objects to nest: flat objects, an
\* object in an object, two objects under keys out of order, objects in
\* arrays, an array in an object, two values with text between them, a
\* candidate that Reader rejects, keys without quotes, and an array with
\* input behind it.
ObjectsInputsOf(nested) ==
  FlatObjects
  \cup {ObjectWith(k, v) : k \in {KeyA, KeyB}, v \in nested}
  \cup {ObjectWithBoth(KeyB, v, KeyA, ObjB) : v \in nested}
  \cup {<<"[">> \o v \o <<"]">> : v \in nested}
  \cup {<<"[">> \o v \o <<",">> \o w \o <<"]">> : v \in nested, w \in nested}
  \cup {ObjectWith(KeyA, <<"[">> \o ObjB \o <<"]">>)}
  \cup {v \o <<",">> \o w : v \in nested, w \in nested}
  \cup {<<"[">> \o ObjA}
  \cup {<<"{", "a", ":", "{", "b", ":", "1", "}", "}">>}
  \cup {<<"[">> \o ObjA \o <<",">> \o ObjB \o <<",">> \o ObjA \o <<"]", ",">>
          \o ObjA}

Option(keys, required) == [Keys |-> keys, Required |-> required]

Options ==
  {Option(keys, required) :
     keys \in {<<>>, <<KeyA>>, <<KeyB>>, <<KeyA, KeyB>>}, required \in BOOLEAN}

InitObjects ==
  /\ \E s \in ObjectsInputsOf(KeyedObjects) : Start(s, NoFail, FALSE, "scan")
  /\ \E o \in SeqsUpTo(Options, MaxOptions) : walk = NewWalk(o)
  /\ given = <<>>
  /\ unm = NoUnmarshal

NextObjects ==
  \/ ObjectsEnd
  \/ ScanSkip
  \/ ObjectsReject
  \/ KeyFuncCalled
  \/ KeyFuncReturns
  \/ OptionNil
  \/ OptionStop
  \/ OptionError

SpecObjects == InitObjects /\ [][NextObjects]_vars

\* Objects on inputs that also hold objects with a key written twice.
ObjTwiceA(v, w) == ObjectWithBoth(KeyA, v, KeyA, w)

RepeatedKeyInputs ==
  {ObjTwiceA(ObjB, ObjA), ObjTwiceA(ObjB, One), ObjTwiceA(One, ObjB),
   <<"[">> \o ObjTwiceA(ObjA, ObjB) \o <<"]">>}

InitRepeated ==
  /\ \E s \in ObjectsInputsOf(KeyedObjects) \cup RepeatedKeyInputs :
       Start(s, NoFail, FALSE, "scan")
  /\ \E o \in SeqsUpTo(Options, MaxOptions) : walk = NewWalk(o)
  /\ given = <<>>
  /\ unm = NoUnmarshal

SpecRepeated == InitRepeated /\ [][NextObjects]_vars

\* One callback made by Unmarshal, invoked again and again.
InitUnmarshal ==
  /\ Start(<<>>, NoFail, FALSE, "unmarshal")
  /\ given = <<>>
  /\ walk = NoWalk
  /\ unm = NewUnmarshal

NextUnmarshal ==
  \/ UnmarshalFails
  \/ VerifyTrue
  \/ VerifyFalse

SpecUnmarshal == InitUnmarshal /\ [][NextUnmarshal]_vars

(***************************************************************************)
(* Reader on candidates written in JavaScript notation: an opener, pieces  *)
(* of text and the closer, as the cases of TestReader (reader_test.go) and *)
(* the example of doc.go are.                                              *)
(***************************************************************************)

\* The most pieces between the brackets of a candidate made of free pieces.
MaxPieces == 4

Space == <<" ">>

NewLine == <<"\n">>

Comma == <<",">>

BlockComment == <<"/", "*", "*", "/">>

\* A candidate: kind names the family it belongs to.
Candidate(kind, opener, pieces) == [kind |-> kind, opener |-> opener, pieces |-> pieces]

CandidateText(c) ==
  <<c.opener>> \o Concat(c.pieces) \o <<matchingBracket(c.opener)>>

CommaPieces == {One, Comma, Space, NewLine, BlockComment}

\* "[1, 3, 55, ]", reader_test.go:526-531
TrailingCommaCase ==
  <<One, Comma, Space, <<"3">>, Comma, Space, <<"5", "5">>, Comma, Space>>

\* Arrays of numbers, commas and text the normaliser ignores.
CommaInputs(n) ==
  {Candidate("comma", openArray, ps) :
     ps \in SeqsUpTo(CommaPieces, n) \cup {TrailingCommaCase}}

\* Integer literals with the decimal digits of their value, all below 2^64.
IntegerForms ==
  {<<<<"0">>, <<"0">>>>,
   <<<<"1">>, <<"1">>>>,
   <<<<"2", "1">>, <<"2", "1">>>>,
   <<<<"0", "x", "1", "5">>, <<"2", "1">>>>,
   <<<<"0", "X", "1", "f">>, <<"3", "1">>>>,
   <<<<"0", "o", "2", "5">>, <<"2", "1">>>>,
   <<<<"0", "b", "1", "0", "1", "0", "1">>, <<"2", "1">>>>,
   <<<<"0", "x", "f", "f", "f", "f", "f", "f", "f", "f",
       "f", "f", "f", "f", "f", "f", "f", "f">>,
     <<"1", "8", "4", "4", "6", "7", "4", "4", "0", "7",
       "3", "7", "0", "9", "5", "5", "1", "6", "1", "5">>>>}

\* Decimal literals with the big-integer suffix.
BigIntForms == {<<<<"2", "1", "n">>, <<"2", "1">>>>, <<<<"0", "n">>, <<"0">>>>}

\* Literals that are no integers, and integers from 2^64 on.
OtherForms ==
  {<<"1", ".">>, <<"1", ".", "5">>, <<".", "5">>, <<"1", "e", "1">>,
   <<"1", ".", "e", "1">>,
   <<"0", "x", "1", "0", "0", "0", "0", "0", "0", "0", "0",
     "0", "0", "0", "0", "0", "0", "0", "0">>}

Zeros(n) == [k \in 1..n |-> "0"]

\* 2^64 in base 16, 8 and 2, and 2^65 - 1 in base 16.
HugeForms ==
  {<<"0", "x", "1">> \o Zeros(16),
   <<"0", "o", "2">> \o Zeros(21),
   <<"0", "b", "1">> \o Zeros(64),
   <<"0", "X", "1">> \o [k \in 1..16 |-> "f"]}

NumberForms ==
  {f[1] : f \in IntegerForms \cup BigIntForms} \cup OtherForms \cup HugeForms

Plus == <<"+">>

Minus == <<"-">>

\* One number behind no sign, a plus or a minus: "dec": +21, doc.go:19-24.
NumberInputs ==
  {Candidate("number", openArray, <<sign, f>>) :
     sign \in {<<>>, Plus, Minus}, f \in NumberForms}

\* A number, a plus and a number: {"num": 3+3 }, reader_test.go:673-676.
PlusInputs ==
  {Candidate("plus", openArray, <<f, before, Plus, after, g>>) :
     f \in NumberForms, before \in {<<>>, Space, BlockComment},
     after \in {<<>>, Space, NewLine}, g \in {<<"3">>, <<".", "5">>}}

Null == <<"n", "u", "l", "l">>

Key == <<"k", "e", "y">>

\* Identifiers with what is to be written for them; nul is no keyword.
IdentifierForms ==
  {<<<<"t", "r", "u", "e">>, <<"t", "r", "u", "e">>>>,
   <<<<"f", "a", "l", "s", "e">>, <<"f", "a", "l", "s", "e">>>>,
   <<Null, Null>>,
   <<<<"u", "n", "d", "e", "f", "i", "n", "e", "d">>, Null>>,
   <<<<"N", "a", "N">>, Null>>,
   <<Key, <<"\"">> \o Key \o <<"\"">>>>,
   <<<<"n", "u", "l">>, <<"\"", "n", "u", "l", "\"">>>>}

Identifiers == {f[1] : f \in IdentifierForms}

Colon == <<":">>

\* "value"
ValueString == <<"\"", "v", "a", "l", "u", "e", "\"">>

\* { key: "value" }, the example of doc.go:5-8 and reader_test.go:640-656
KeyValueCase == <<Space, Key, Colon, Space, ValueString, Space>>

\* Identifiers as keys and as values of objects and as elements of arrays.
IdentifierInputs ==
  {Candidate("identifier", openObject, <<k, Colon, v>>) :
     k \in Identifiers, v \in Identifiers}
  \cup {Candidate("identifier", openArray, <<v, Comma, w>>) :
          v \in Identifiers, w \in Identifiers}
  \cup {Candidate("identifier", openObject, KeyValueCase)}

BracketPieces == {<<"{">>, <<"}">>, <<"[">>, <<"]">>, Comma}

\* Brackets of both kinds inside a candidate of either kind, as in
\* reader_test.go:683-694.
BracketInputs(n) ==
  {Candidate("bracket", opener, ps) :
     opener \in {openObject, openArray}, ps \in SeqsUpTo(BracketPieces, n)}

Apostrophe == <<"'">>

DoubleQuote == <<"\"">>

\* What may stand inside a single-quoted string, as written in JavaScript,
\* with the text it stands for: a letter, a double quote, an escaped
\* apostrophe, an escaped backslash, an escaped double quote.
QuotedForms ==
  {<<<<"a">>, <<"a">>>>,
   <<DoubleQuote, DoubleQuote>>,
   <<<<"\\", "'">>, Apostrophe>>,
   <<<<"\\", "\\">>, <<"\\">>>>,
   <<<<"\\", "\"">>, DoubleQuote>>}

\* One single-quoted string in an array: ['two'], reader_test.go:634-639.
QuotedInputs(n) ==
  {Candidate("quoted", openArray, <<Apostrophe>> \o ps \o <<Apostrophe>>) :
     ps \in SeqsUpTo({f[1] : f \in QuotedForms}, n - 1)}

\* What may stand inside a template literal, with the bytes of the JSON
\* string it is to become: a letter, an escaped backtick, a line break, a
\* double quote.
TemplateForms ==
  {<<<<"a">>, <<"a">>>>,
   <<<<"\\", Backtick>>, <<Backtick>>>>,
   <<NewLine, <<"\\", "n">>>>,
   <<DoubleQuote, <<"\\", "\"">>>>}

\* One template literal in an array, reader_test.go:445-470.
TemplateInputs(n) ==
  {Candidate("template", openArray, <<<<Backtick>>>> \o ps \o <<<<Backtick>>>>) :
     ps \in SeqsUpTo({f[1] : f \in TemplateForms}, n - 1)}

\* An array or object with one comma and ignored text between its brackets.
LoneCommaInputs(n) ==
  {Candidate("lone", opener, before \o <<Comma>> \o after) :
     opener \in {openObject, openArray},
     before \in SeqsUpTo({Space, NewLine, BlockComment}, n - 3),
     after \in SeqsUpTo({Space, NewLine, BlockComment}, n - 3)}

JSInputs(n) ==
  LoneCommaInputs(n) \cup CommaInputs(n) \cup NumberInputs \cup PlusInputs \cup IdentifierInputs
  \cup BracketInputs(n) \cup QuotedInputs(n) \cup TemplateInputs(n)

InitJS ==
  /\ \E c \in JSInputs(MaxPieces) :
       Start(CandidateText(c), NoFail, FALSE, "scan") /\ given = <<c>>
  /\ NoCaller

SpecJS == InitJS /\ [][Next]_vars

(***************************************************************************)
(* Properties                                                              *)
(***************************************************************************)

\* C1: every byte slice Reader passes to the callback starts with '{' or
\* '[', is at least two bytes long and is accepted by the strict-JSON
\* validator.
DeliveredIsValidJSON ==
  pc = "callback" => Len(msg) >= 2 /\ IsOpener(msg[1]) /\ Valid(msg)

\* A value is delivered that the normaliser had to rewrite.
DeliveredRewritten ==
  pc = "callback" /\ Len(msg) > Len(src) /\ msg = Last(calls)

\* C2: when a value is delivered, the byte count the normaliser returned is
\* the length of the source region from the opener through its closer, and
\* scanning resumes at the first byte after that region.
ResumesBehindValue ==
  pc = "callback" =>
    /\ probe.readByteCount = probe.lexed
    /\ Pos(Buf) = probe.opener + probe.lexed

\* C3: once the byte source has returned a read error, no callback runs
\* and Reader ends with that error.
ReadErrorIsReturned ==
  failed => pc # "callback" /\ (pc = "done" => err = "readErr")

\* C4: when the callback returns ErrStop, Reader returns nil without
\* invoking the callback again, whatever follows in the input.
StopReturnsNil ==
  last = "ErrStop" => pc = "done" /\ err = "nil" /\ msg = <<>>

\* The callback stopped Reader at the first of two values.
StoppedBeforeSecondValue ==
  /\ last = "ErrStop"
  /\ Len(calls) = 1
  /\ Text(src, Pos(Buf) + 1, 2) = <<"[", "]">>

\* C5: when the callback returns an error other than ErrStop, Reader
\* returns exactly that error without invoking the callback again.
CallbackErrorIsReturned ==
  last = "cbErr" => pc = "done" /\ err = "cbErr" /\ msg = <<>>

\* The callback failed on the second value it was given.
FailedAtSecondValue == last = "cbErr" /\ Len(calls) = 2

\* C6: a rejected candidate is no error: Reader goes on scanning one byte
\* behind the candidate's opener, and the only errors Reader returns are
\* the callback's and the byte source's.
RejectSkipsOneByte ==
  /\ last = "reject" =>
       pc = "scan" /\ err = "nil" /\ Pos(Buf) = probe.opener + 1
  /\ pc = "done" => err \in {"nil", "cbErr", "readErr"}

\* An opener inside an earlier failed candidate is probed and fails
\* validation in its turn.
NestedCandidateRejected ==
  /\ last = "reject"
  /\ probe.opener >= 1
  /\ IsOpener(src[1])
  /\ probe.err = "nil"

\* C7: the callback is invoked in strictly increasing order of the source
\* offset of each delivered value's opening bracket.
OpenersIncrease ==
  \A i, j \in 1..Len(starts) : i < j => starts[i] < starts[j]

\* Two values have been delivered.
TwoDelivered == pc = "callback" /\ Len(starts) = 2

\* C8: the end of the byte stream ends Reader with a nil error.
EndOfStreamIsNil == last = "EOF" => pc = "done" /\ err = "nil"

\* The stream ended inside an unfinished candidate that followed a
\* delivered value.
EndedInsideCandidate ==
  /\ last = "EOF"
  /\ calls # <<>>
  /\ ~probe.ok /\ probe.err = "nil"
  /\ probe.opener + probe.lexed = Len(src)

\* C9: after MarkStart, N bytes read and ReturnAndSkip(k) with k <= N, the
\* reads that follow yield the stream from offset mark + k on: every read
\* returns the bytes at the offset it stands at, and ends only at the end.
RoundTrip ==
  got.at >= 0 =>
    /\ got.data = Text(src, got.at + 1, Len(got.data))
    /\ got.err = "EOF" => got.at + Len(got.data) >= Len(src)

\* C10: Reader run on a value it delivered invokes the callback once, with
\* that value.
DeliveredIsFixpoint ==
  run = 1 =>
    /\ calls = <<>> \/ calls = <<src>>
    /\ pc = "done" => calls = <<src>>

\* A delivered value holding a string was read again to the end.
StringValueReadAgain ==
  run = 1 /\ pc = "done" /\ last = "EOF" /\ calls = <<src>> /\ Len(src) > 4

\* C11: for an input made of K strict-JSON values with bracket-free text
\* between them, the callback is invoked once per value and in their order,
\* the k-th time with the k-th value (the opener found where that value
\* starts), nothing nested in a value is delivered on its own, and a Reader
\* that ran to the end of the input has made all K invocations.
StrictValuesDeliveredInOrder ==
  /\ Len(calls) <= Len(given)
  /\ \A k \in DOMAIN calls :
       calls[k] = given[k].compact /\ starts[k] = given[k].at
  /\ (pc = "done" /\ last = "EOF") => Len(calls) = Len(given)

\* Two values, the first with a value nested in it, were delivered and
\* Reader came to the end of the input.
TwoStrictValuesDelivered ==
  /\ run = 0 /\ pc = "done" /\ last = "EOF"
  /\ Len(calls) = 2 /\ Len(given) = 2
  /\ ~\E k \in 1..given[1].at : IsOpener(src[k])
  /\ \E k \in 2..Len(given[1].text) : IsOpener(given[1].text[k])

RECURSIVE StripSpace(_, _)
\* text without the whitespace that stands outside of its strings; inString
\* tells whether the first byte is inside a string.
StripSpace(text, inString) ==
  IF text = <<>> THEN <<>>
  ELSE IF Head(text) = "\"" THEN <<"\"">> \o StripSpace(Tail(text), ~inString)
  ELSE IF ~inString /\ Head(text) \in JSONWhitespace
    THEN StripSpace(Tail(text), inString)
  ELSE <<Head(text)>> \o StripSpace(Tail(text), inString)

KeysOf(ms) == {ms[i].key : i \in DOMAIN ms}

ImmediateKeys(b) == KeysOf(Members(b, 2))

\* Every key of option i is among keys.
KeysAmong(i, keys) ==
  \A j \in DOMAIN walk.o[i].Keys : walk.o[i].Keys[j] \in keys

\* Every key of option i is an immediate key of b.
KeysPresent(i, b) == KeysAmong(i, ImmediateKeys(b))

\* The lowest of the options, 0 without one.
LowestOrNone(options) ==
  IF options = {} THEN 0
  ELSE CHOOSE i \in options : \A j \in options : i <= j

PresentAmong(done, keys) ==
  {i \in DOMAIN walk.o : i \notin done /\ KeysAmong(i, keys)}

\* The lowest option outside done whose keys are all in b, 0 without one.
LowestPresent(done, b) == LowestOrNone(PresentAmong(done, ImmediateKeys(b)))

RECURSIVE CountOf(_, _)
CountOf(c, text) ==
  IF text = <<>> THEN 0
  ELSE (IF Head(text) = c THEN 1 ELSE 0) + CountOf(c, Tail(text))

RECURSIVE ObjectsIn(_)
\* The number of objects in the values vs; no string of the inputs holds a
\* brace.
ObjectsIn(vs) ==
  IF vs = <<>> THEN 0 ELSE CountOf(openObject, Head(vs)) + ObjectsIn(Tail(vs))

\* The options whose Callback returned ErrStop before entry k of the log.
StoppedBefore(k) ==
  {walk.log[j].opt : j \in {x \in 1..(k - 1) : walk.log[x].ret = "ErrStop"}}

\* C13: first match wins.  For every object keyFunc came to, the option
\* invoked is the lowest-index option that was not satisfied then and whose
\* Keys are all present in the object, no option when there is none; an
\* object is offered once, so that no second option is invoked for it.
FirstMatchWins ==
  /\ \A k \in DOMAIN walk.log :
       walk.log[k].opt = LowestPresent(walk.log[k].satisfied, walk.log[k].b)
  /\ walk.offer # 0 =>
       walk.offer = LowestPresent(walk.satisfiedCallbacks, walk.b)
  /\ Len(walk.log) + (IF walk.offer # 0 THEN 1 ELSE 0) <= ObjectsIn(calls)

\* The first option was invoked for an object that the second option, not
\* satisfied either, matches too.
LaterOptionAlsoMatched ==
  \E k \in DOMAIN walk.log :
    /\ walk.log[k].opt = 1 /\ walk.log[k].ret = "nil"
    /\ Len(walk.o) = 2 /\ 2 \notin walk.log[k].satisfied
    /\ walk.o[2].Keys # <<>>
    /\ KeysPresent(2, walk.log[k].b)

\* C14: once Objects has returned, the result is ErrCallbackNeverCalled
\* exactly when Reader returned no error and some option with Required set
\* has no Callback return of ErrStop in the log (never invoked, or invoked
\* without signalling stop); without such an option and without an error
\* the result is nil.
NeverCalledIffRequiredUnsatisfied ==
  pc = "done" =>
    LET missing ==
          \E i \in DOMAIN walk.o :
            /\ walk.o[i].Required
            /\ ~\E k \in DOMAIN walk.log :
                  walk.log[k].opt = i /\ walk.log[k].ret = "ErrStop"
    IN /\ walk.result = "ErrCallbackNeverCalled" <=> (err = "nil" /\ missing)
       /\ (err = "nil" /\ ~missing) => walk.result = "nil"

\* Objects returned ErrCallbackNeverCalled although the Callback of the
\* required option had been invoked; it returned nil.
RequiredInvokedButNeverStopped ==
  /\ pc = "done" /\ walk.result = "ErrCallbackNeverCalled"
  /\ \E k \in DOMAIN walk.log :
       walk.log[k].opt # 0 /\ walk.o[walk.log[k].opt].Required

\* C15: a Callback that returned an error other than ErrStop is the last
\* one invoked; Objects has returned, and returned that error, whatever the
\* required options are.
CallbackErrorHaltsObjects ==
  \A k \in DOMAIN walk.log :
    walk.log[k].ret = "cbErr" =>
      /\ k = Len(walk.log)
      /\ walk.offer = 0
      /\ pc = "done"
      /\ walk.result = "cbErr"

\* Objects returned the error of a Callback with a required option not
\* satisfied and values of the walk left over.
ErrorBeforeRequiredSatisfied ==
  /\ walk.result = "cbErr"
  /\ walk.todo # <<>>
  /\ \E i \in DOMAIN walk.o : walk.o[i].Required /\ i \notin walk.satisfiedCallbacks

\* C16: an option whose Callback has returned ErrStop is not invoked again
\* in the same call of Objects, and an object that comes later goes to the
\* lowest matching option among those that have not returned ErrStop.
SatisfiedNeverInvokedAgain ==
  \A k \in DOMAIN walk.log :
    /\ walk.log[k].opt \notin StoppedBefore(k)
    /\ walk.log[k].opt = LowestPresent(StoppedBefore(k), walk.log[k].b)

\* An object that the first option matches went to the second one, the
\* first one having returned ErrStop before.
OfferedToNextOption ==
  \E k \in DOMAIN walk.log :
    /\ walk.log[k].opt = 2
    /\ 1 \in StoppedBefore(k)
    /\ KeysPresent(1, walk.log[k].b)

\* C17: when a Callback's ErrStop has made the number of satisfied options
\* equal to the number of options, Objects has returned nil: that Callback
\* is the last one invoked and Reader has stopped where it was.
AllSatisfiedEndsObjects ==
  (Len(walk.o) > 0 /\ walk.satisfiedCount = Len(walk.o)) =>
    /\ pc = "done"
    /\ last = "ErrStop"
    /\ walk.result = "nil"
    /\ walk.offer = 0
    /\ walk.log[Len(walk.log)].ret = "ErrStop"

\* Both options were satisfied with an element of the array not walked and
\* input still unread.
EndedEarlyWithInputLeft ==
  /\ Len(walk.o) = 2 /\ walk.satisfiedCount = 2
  /\ walk.todo # <<>>
  /\ Pos(Buf) < Len(src)
  /\ walk.result = "nil"

MatchIsKeyInclusion ==
  /\ \A k \in DOMAIN walk.log :
       /\ walk.log[k].b[1] = openObject
       /\ walk.log[k].opt # 0 => KeysPresent(walk.log[k].opt, walk.log[k].b)
       /\ walk.log[k].opt = 0 =>
            PresentAmong(walk.log[k].satisfied, ImmediateKeys(walk.log[k].b)) = {}
  /\ (pc = "done" /\ last = "EOF") => Len(walk.log) = ObjectsIn(calls)

\* The key b stands only in an object inside an array inside the delivered
\* object: the outer object went without a Callback, the inner one to the
\* option with Keys b.
NestedKeyMatchedInsideArray ==
  /\ Len(walk.log) = 2
  /\ walk.o # <<>> /\ walk.o[1].Keys = <<KeyB>>
  /\ walk.log[1].opt = 0 /\ walk.log[1].b = calls[1]
  /\ CountOf(openArray, calls[1]) = 1
  /\ walk.log[2].opt = 1

\* C19 as stated: once the callback made by Unmarshal has returned ErrStop,
\* no later invocation changes the container or calls verify: both are as
\* they were when it returned ErrStop first.
StoppedCallbackIsNoOp ==
  unm.stopped =>
    /\ unm.container = unm.atStop.container
    /\ unm.verifyCalls = unm.atStop.verifyCalls

\* The objects written in the value v, outermost first; no string of the
\* inputs holds a brace.
WrittenIn(v) ==
  [k \in 1..CountOf(openObject, v) |->
     LET i == CHOOSE i \in 1..Len(v) :
                v[i] = openObject /\ CountOf(openObject, SubSeq(v, 1, i)) = k
     IN SubSeq(v, i, JValueEnd(v, i) - 1)]

\* The keys in ascending order of their bytes, one after the other.
RECURSIVE Ascending(_)
Ascending(keys) ==
  IF keys = {} THEN <<>>
  ELSE LET low == CHOOSE k \in keys : \A x \in keys \ {k} : Less(k, x)
       IN <<low>> \o Ascending(keys \ {low})

\* The value the decoded object holds under key: that of the last member
\* written with it.
ValueUnder(ms, key) ==
  ms[CHOOSE i \in DOMAIN ms :
       ms[i].key = key /\ \A j \in DOMAIN ms : ms[j].key = key => j <= i].value

RECURSIVE Preorder(_)
\* The objects of the decoded value v: an object before what it holds, the
\* members of an object by ascending key, the elements of an array by index.
Preorder(v) ==
  IF v[1] = openObject THEN
    LET ms == Members(v, 2)
        keys == Ascending(KeysOf(ms))
    IN <<v>> \o Concat([k \in DOMAIN keys |-> Preorder(ValueUnder(ms, keys[k]))])
  ELSE IF v[1] = openArray THEN
    LET es == Elements(v, 2) IN Concat([k \in DOMAIN es |-> Preorder(es[k])])
  ELSE <<>>

PreorderAll(vs) == Concat([k \in DOMAIN vs |-> Preorder(vs[k])])

WrittenInAll(vs) == Concat([k \in DOMAIN vs |-> WrittenIn(vs[k])])

\* How often x stands in the sequence xs.
Times(x, xs) == Cardinality({k \in DOMAIN xs : xs[k] = x})

\* The objects keyFunc has come to, the one whose Callback runs included.
Offered ==
  [k \in DOMAIN walk.log |-> walk.log[k].b]
  \o (IF walk.offer # 0 THEN <<walk.b>> ELSE <<>>)

\* Objects ran through the whole input: no Callback ended it.
WalkedAll == pc = "done" /\ last = "EOF"

\* Each of the objects all has been offered at most as often as it is in
\* all, and exactly as often once the walk is complete.
OfferedOnce(offered, all, complete) ==
  /\ \A k \in DOMAIN offered : Times(offered[k], offered) <= Times(offered[k], all)
  /\ complete => \A k \in DOMAIN all : Times(all[k], offered) = Times(all[k], all)

IsPrefix(xs, ys) == Len(xs) <= Len(ys) /\ xs = SubSeq(ys, 1, Len(xs))

\* C22: the objects are offered in one order that the input alone fixes:
\* an object before the objects it holds, the members of an object in
\* ascending order of their keys, the elements of an array by index, the
\* delivered values one after the other.
OfferedInKeyOrder == IsPrefix(Offered, PreorderAll(calls))

\* The object under key a was offered before the one under key b, which
\* the input holds first.
LaterWrittenKeyOfferedFirst ==
  /\ WalkedAll /\ Len(Offered) = 3
  /\ Offered # WrittenInAll(calls)

\* n times the byte c
Repeat(c, n) == [k \in 1..n |-> c]

\* s is n openers followed by m closers of that kind, n and m at least 1.
IsRun(s, opener, closer, n, m) ==
  n >= 1 /\ m >= 1 /\ s = Repeat(opener, n) \o Repeat(closer, m)

Min(x, y) == IF x <= y THEN x ELSE y

\* The values Reader is to deliver on s when s is such a run: an empty
\* object, or the empty array nested min(n, m) deep.
RunValues(s) ==
  {<<openObject, matchingBracket(openObject)>> :
     n \in {n \in 1..Len(s) : IsRun(s, openObject, matchingBracket(openObject), n, Len(s) - n)}}
  \cup
  {Repeat(openArray, Min(n, Len(s) - n)) \o Repeat(matchingBracket(openArray), Min(n, Len(s) - n)) :
     n \in {n \in 1..Len(s) : IsRun(s, openArray, matchingBracket(openArray), n, Len(s) - n)}}

\* C23: on n opening braces followed by m closing braces Reader delivers
\* one value, {}; on n opening brackets followed by m closing brackets it
\* delivers one value, the empty array nested min(n, m) deep.
BracketRunDeliversOneValue ==
  \A v \in RunValues(src) :
    /\ calls \in {<<>>, <<v>>}
    /\ (pc = "done" /\ last = "EOF") => calls = <<v>>

\* More openers than closers, and more closers than openers, both through.
UnevenRunDelivered ==
  /\ pc = "done" /\ last = "EOF" /\ run = 0
  /\ \/ IsRun(src, openArray, matchingBracket(openArray), 3, 2)
     \/ IsRun(src, openObject, matchingBracket(openObject), 2, 3)

\* C24: bufBefore is empty whenever MarkEnd is called, which Reader does
\* when the callback returned nil, and so MarkEnd never panics.
MarkEndFindsCaptureEmpty ==
  /\ pc # "panic"
  /\ pc = "callback" => bufBefore = <<>>

\* MarkEnd has been called twice, with input skipped in between.
MarkEndCalledAfterReject ==
  /\ pc = "scan" /\ last = "nil" /\ Len(calls) = 2
  /\ starts[2] > starts[1] + Len(calls[1])

\* C25 as stated: while Reader looks for the next opener the capture is
\* off and bufBefore holds nothing, after a delivered value and after a
\* rejected candidate alike.
CaptureOffBetweenCandidates ==
  pc = "scan" => (~enableReturn /\ bufBefore = <<>>)

\* The candidate Reader was started on, as long as Reader has not been
\* started again on a value it delivered.
Written == given[1]

OfKind(kind) == run = 0 /\ Len(given) = 1 /\ Written.kind = kind

\* Reader has just tried the candidate: readJSObject ran on all of src.
FirstProbe(kind) ==
  OfKind(kind) /\ probe.opener = 0 /\ last \in {"deliver", "reject"}

IgnoredPieces == {Space, NewLine, BlockComment}

\* The pieces the normaliser does not ignore.
Visible(ps) == SelectSeq(ps, LAMBDA p : p \notin IgnoredPieces)

\* One comma less when the pieces end with a comma.
WithoutLastComma(ps) ==
  IF ps # <<>> /\ Last(ps) = Comma THEN SubSeq(ps, 1, Len(ps) - 1) ELSE ps

\* [1,3,55]
TrailingCommaValue == <<"[", "1", ",", "3", ",", "5", "5", "]">>

\* The candidate without what the normaliser leaves out.
CommaExpected(c) ==
  <<c.opener>> \o Concat(WithoutLastComma(Visible(c.pieces)))
  \o <<matchingBracket(c.opener)>>

EndsWithTwoCommas(ps) ==
  Len(ps) >= 2 /\ ps[Len(ps)] = Comma /\ ps[Len(ps) - 1] = Comma

\* Reader went through the whole input.
ReadToEnd == pc = "done" /\ last = "EOF"

\* C26: whitespace, line terminators and comments leave no trace in the
\* output, also not between a comma and the closer; a closer that follows
\* a comma removes that one comma; with two commas before the closer one
\* of them stays and nothing is delivered.
CommaOutput(c, res) ==
  /\ res.err = "nil" /\ res.output = CommaExpected(c)
  /\ EndsWithTwoCommas(Visible(c.pieces)) => Last(Truncate1(res.output)) = ","

PlusBetweenNumbersRejected == OfKind("plus") => calls = <<>>

\* The sign the output keeps.
KeptSign(sign) == IF sign = Minus THEN Minus ELSE <<>>

\* What a literal is to be emitted as: the decimal digits of its value for
\* the integer forms, the literal itself for the others.
Emitted(text) ==
  IF \E f \in IntegerForms \cup BigIntForms : f[1] = text
    THEN (CHOOSE f \in IntegerForms \cup BigIntForms : f[1] = text)[2]
    ELSE text

NumberExpected(c) ==
  <<c.opener>> \o KeptSign(c.pieces[1]) \o Emitted(c.pieces[2])
  \o <<matchingBracket(c.opener)>>

IsIntegerForm(text) == \E f \in IntegerForms \cup BigIntForms : f[1] = text

\* C28: a decimal, hexadecimal, octal or binary integer literal below 2^64,
\* with or without the suffix n, is emitted as the decimal digits of its
\* value; a minus before it is kept, a plus is removed; a literal that is
\* no such integer is emitted as written.
NumberOutput(c, res) ==
  /\ res.err = "nil" /\ res.output = NumberExpected(c)
  /\ \A f \in IntegerForms :
       /\ NumericOutput("Numeric", f[1]) = f[2]
       /\ NumericOutput("BigInt", f[1] \o <<"n">>) = f[2]

NumbersEmittedInBaseTen ==
  /\ FirstProbe("number") => NumberOutput(Written, readJSObject(src))
  /\ (OfKind("number") /\ ReadToEnd /\ IsIntegerForm(Written.pieces[2])) =>
       calls = <<NumberExpected(Written)>>

\* -0X1f has been delivered as -31, and so has +0b10101 as 21.
SignedHexDelivered ==
  /\ OfKind("number") /\ ReadToEnd
  /\ \/ Written.pieces = <<Minus, <<"0", "X", "1", "f">>>>
        /\ calls = <<<<"[", "-", "3", "1", "]">>>>
     \/ Written.pieces = <<Plus, <<"0", "b", "1", "0", "1", "0", "1">>>>
        /\ calls = <<<<"[", "2", "1", "]">>>>

\* What one piece of an identifier candidate is to be written as.
PieceExpected(p) ==
  IF p \in Identifiers
    THEN (CHOOSE f \in IdentifierForms : f[1] = p)[2]
    ELSE p

IdentifierExpected(c) ==
  <<c.opener>>
  \o Concat([k \in DOMAIN Visible(c.pieces) |-> PieceExpected(Visible(c.pieces)[k])])
  \o <<matchingBracket(c.opener)>>

\* No keyword stands where JSON wants a string.
KeyIsName(c) ==
  c.opener = openArray \/ Visible(c.pieces)[1] \in {Key, <<"n", "u", "l">>}

\* C29: as a key and as a value, true, false and null are written as they
\* are, undefined and NaN as null, and any other identifier as a JSON
\* string of its text; { key: "value" } is delivered as {"key":"value"},
\* and an identifier used as a value is delivered as a string.
IdentifierOutputs(c, res) ==
  res.err = "nil" /\ res.output = IdentifierExpected(c)

RECURSIVE LevelsFrom(_, _)
\* level at the start of each pass of the token loop on s, from pass on.
LevelsFrom(s, pass) ==
  IF pass.done THEN <<>>
  ELSE <<pass.st.level>>
       \o LevelsFrom(s, TokenPass(s, pass.st, LexNext(s, pass.st.i)))

Levels(s) ==
  LevelsFrom(s, Continue([i |-> 1, buf |-> <<>>, readInputBytes |-> 0,
                          first |-> "NUL", level |-> 0, lastByte |-> "NUL"]))

\* The bytes of a bracket candidate behind its opener, one token each.
Inner(c) == Concat(c.pieces) \o <<matchingBracket(c.opener)>>

\* The depth behind the first k of these bytes, counting the brackets of
\* the opener's kind only.
DepthBehind(c, k) ==
  1 + Cardinality({j \in 1..k : Inner(c)[j] = c.opener})
    - Cardinality({j \in 1..k : Inner(c)[j] = matchingBracket(c.opener)})

\* The bytes at which the depth is back at zero.
Closing(c) == {k \in 1..Len(Inner(c)) : DepthBehind(c, k) = 0}

FirstClosing(c) == CHOOSE k \in Closing(c) : \A j \in Closing(c) : k <= j

\* C30: level counts the brackets of the opener's kind and no others; from
\* the opener on it is at least 1 as long as the loop runs; the loop ends
\* at the first closer that takes it back to 0, and what readJSObject then
\* returns begins with the opener, ends with its closer and covers the
\* input up to that closer.
LevelsAgree(c, levels, res) ==
  /\ levels[1] = 0
  /\ \A k \in 2..Len(levels) :
       levels[k] = DepthBehind(c, k - 2) /\ levels[k] >= 1
  /\ (res.err = "nil" /\ Closing(c) # {}) =>
       /\ Len(levels) = FirstClosing(c) + 1
       /\ res.readInputBytes = FirstClosing(c) + 1
       /\ Head(res.output) = c.opener
       /\ Last(res.output) = matchingBracket(c.opener)
  /\ (res.err = "nil" /\ Closing(c) = {}) => Len(levels) = Len(c.pieces) + 3

LevelCountsOpenersKind ==
  FirstProbe("bracket") => LevelsAgree(Written, Levels(src), readJSObject(src))

\* [{}][]: the first value ended at the first bracket that closed it, with
\* braces inside that did not count.
ClosedAtFirstReturn ==
  /\ OfKind("bracket") /\ ReadToEnd
  /\ Written.opener = openArray
  /\ Written.pieces = <<<<"{">>, <<"}">>, <<"]">>, <<"[">>>>
  /\ calls = <<<<"[", "{", "}", "]">>, <<"[", "]">>>>

\* The options whose Callback has returned ErrStop, by the log.
StoppedOptions(w) ==
  {w.log[k].opt : k \in {k \in DOMAIN w.log : w.log[k].ret = "ErrStop"}}

\* What holds of satisfiedCallbacks and satisfiedCount in every state.
RecordCounted(w) ==
  /\ w.satisfiedCallbacks \subseteq DOMAIN w.o
  /\ w.satisfiedCount = Cardinality(w.satisfiedCallbacks)
  /\ w.satisfiedCount <= Len(w.o)
  /\ w.satisfiedCallbacks = StoppedOptions(w)
  /\ \A i \in w.satisfiedCallbacks :
       Cardinality({k \in DOMAIN w.log : w.log[k].opt = i /\ w.log[k].ret = "ErrStop"}) = 1

\* What holds of them from one state to the next.
RecordGrows(w, next) ==
  /\ w.satisfiedCallbacks \subseteq next.satisfiedCallbacks
  /\ next.satisfiedCount - w.satisfiedCount
       = Cardinality(next.satisfiedCallbacks \ w.satisfiedCallbacks)

\* C31: satisfiedCallbacks is empty when Objects starts and only grows;
\* an index enters it once, and only when the Callback of that option has
\* returned ErrStop; satisfiedCount is the number of its indices and never
\* above the number of options.
SatisfactionRecordGrows ==
  /\ walk.satisfiedCallbacks = {} /\ walk.satisfiedCount = 0
  /\ []RecordCounted(walk)
  /\ [][RecordGrows(walk, walk')]_vars

\* One option is in the record, the other one has been invoked after that
\* and returned nil.
RecordKeptAcrossCallbacks ==
  /\ Len(walk.o) = 2 /\ Cardinality(walk.satisfiedCallbacks) = 1
  /\ Len(walk.log) >= 2
  /\ walk.log[Len(walk.log)].ret = "nil"
  /\ walk.log[Len(walk.log)].opt \notin walk.satisfiedCallbacks
  /\ walk.log[Len(walk.log)].opt # 0

\* The pieces between the delimiters of the one string of a candidate.
Content(c) == SubSeq(c.pieces, 2, Len(c.pieces) - 1)

\* What the pieces stand for, or are to become, by the table forms.
Meant(ps, forms) ==
  Concat([k \in DOMAIN ps |-> (CHOOSE f \in forms : f[1] = ps[k])[2]])

\* The text is one JSON string in an array, and the string reads as
\* content.
IsStringOf(text, content) ==
  /\ Len(text) >= 4
  /\ text[1] = openArray /\ text[2] = "\"" /\ Last(text) = "]"
  /\ JStringEnd(text, 3) = Len(text)
  /\ Unquote(SubSeq(text, 3, Len(text) - 2)) = content

QuotedOutput(c, res) ==
  res.err = "nil" /\ IsStringOf(res.output, Meant(Content(c), QuotedForms))

\* C32 as stated: a single-quoted string is emitted as a double-quoted
\* JSON string of the same content, for every combination of quotes and
\* backslashes inside it, and so it is delivered.
SingleQuotedBecomesJSONString ==
  /\ FirstProbe("quoted") => QuotedOutput(Written, readJSObject(src))
  /\ (OfKind("quoted") /\ ReadToEnd) =>
       Len(calls) = 1 /\ IsStringOf(calls[1], Meant(Content(Written), QuotedForms))

TemplateOutputs(c, res) ==
  /\ res.err = "nil"
  /\ res.output = <<openArray>> \o DoubleQuote
                   \o Meant(Content(c), TemplateForms)
                   \o DoubleQuote \o <<matchingBracket(openArray)>>

\* C33 as stated: a template literal of any length is emitted as the JSON
\* string of its text, the outer backticks stripped, escaped backticks
\* unescaped, line breaks and double quotes escaped, and so it is
\* delivered.
TemplateBecomesJSONString ==
  /\ FirstProbe("template") => TemplateOutputs(Written, readJSObject(src))
  /\ (OfKind("template") /\ ReadToEnd) =>
       calls = <<<<openArray>> \o DoubleQuote
                 \o Meant(Content(Written), TemplateForms)
                 \o DoubleQuote \o <<matchingBracket(openArray)>>>>

\* Two numbers of the pieces have only ignored text between them, and some.
NumbersApart(ps) ==
  \E i, j \in DOMAIN ps :
    /\ j > i + 1
    /\ ps[i] = One /\ ps[j] = One
    /\ \A k \in (i + 1)..(j - 1) : ps[k] \in IgnoredPieces

\* C36 as stated: two numbers with only whitespace or a comment between
\* them are not delivered as one number, the digits of both joined.
SeparateNumbersNotJoined ==
  (OfKind("comma") /\ NumbersApart(Written.pieces)) =>
    \A k \in DOMAIN calls : calls[k] # CommaExpected(Written)

IsHuge(c) == c.pieces[2] \in HugeForms

\* The literal is written as it stands, and the output is no JSON.
HugeOutput(c, res) ==
  /\ NumericOutput("Numeric", c.pieces[2]) = c.pieces[2]
  /\ res.err = "nil"
  /\ res.output = <<c.opener>> \o KeptSign(c.pieces[1]) \o c.pieces[2]
                   \o <<matchingBracket(c.opener)>>
  /\ ~Valid(res.output)

\* C39: a hexadecimal, octal or binary integer literal of value 2^64 or
\* more is emitted as it is written, never as a decimal number; the output
\* is then no valid JSON and nothing is delivered for the candidate.
HugeLiteralsEmittedUnchanged ==
  /\ (FirstProbe("number") /\ IsHuge(Written)) =>
       HugeOutput(Written, readJSObject(src))
  /\ (OfKind("number") /\ IsHuge(Written)) => calls = <<>>

\* -0o2000000000000000000000 has been read to the end with no delivery.
HugeOctalRejected ==
  /\ OfKind("number") /\ ReadToEnd
  /\ Written.pieces = <<Minus, <<"0", "o", "2">> \o Zeros(21)>>
  /\ calls = <<>>

\* The opener and its closing bracket alone, all input read.
EmptyOutput(c, res) ==
  /\ res.err = "nil"
  /\ res.output = <<c.opener, matchingBracket(c.opener)>>
  /\ res.readInputBytes = Len(CandidateText(c))

\* C40: a candidate with nothing but one comma, whitespace and comments
\* between its brackets is emitted, and delivered, as the empty array or
\* the empty object.
LoneCommaGivesEmptyValue ==
  /\ FirstProbe("lone") => EmptyOutput(Written, readJSObject(src))
  /\ (OfKind("lone") /\ ReadToEnd) =>
       calls = <<<<Written.opener, matchingBracket(Written.opener)>>>>

\* { ,/**/} has been delivered as {}.
LoneCommaObjectDelivered ==
  /\ OfKind("lone") /\ ReadToEnd
  /\ Written.opener = openObject
  /\ Written.pieces = <<Space, Comma, BlockComment>>
  /\ calls = <<<<openObject, matchingBracket(openObject)>>>>

\* The loop stands before an opener it can put back.
BeforeOpener == AtCandidate

\* What reader.go:81 reads when the source hands out chunk bytes per Read.
CandidateReadBy(chunk) ==
  ReadAllBy(MarkStart(UnreadRune(ReadRune(Buf).b).b), chunk)

PassAdvances ==
  (pc = "scan" /\ pc' \in {"scan", "callback"}) =>
    /\ last' \in {"skip", "reject"} => Pos(Buf)' = Pos(Buf) + 1
    /\ last' = "deliver" =>
         /\ Pos(Buf)' = Pos(Buf) + probe'.readByteCount
         /\ probe'.readByteCount >= 2
         /\ probe'.readByteCount <= probe'.lexed

\* Within one call of Reader the position does not go back.
NeverBack == run' = run => Pos(Buf)' >= Pos(Buf)

\* C35: every pass through the scanning loop that does not end Reader
\* advances the position by at least one byte (one at a non-opener and at
\* a failed probe, two or more at a delivery), the position never goes
\* back and stays within the input, and Reader, once scanning, comes to
\* its end.
ReaderAdvancesAndEnds ==
  /\ [][PassAdvances /\ NeverBack]_vars
  /\ [](Pos(Buf) >= 0 /\ Pos(Buf) <= Len(src))
  /\ (pc = "scan") ~> (pc \in {"done", "panic"})

\* Reader has ended after a pass of another kind and a delivered value.
EndedAfterEveryKindOfPass ==
  /\ pc = "done" /\ run = 0 /\ last = "EOF"
  /\ Len(calls) = 1 /\ starts[1] >= 1

\* The read of a candidate leaves nothing in the replay buffer, which the
\* rewind that follows then replaces.
ReplayDrained ==
  BeforeOpener =>
    ReadAll(MarkStart(UnreadRune(ReadRune(Buf).b).b)).b.ret = <<>>

\* The replay buffer holds the bytes of the source from the position on.
ReplayIsSource ==
  (Busy /\ run = 0) => ret = SubSeq(src, Pos(Buf) + 1, npos)

\* After a delivery the loop reads behind the region of the value.
ScansBehindDelivered ==
  (Busy /\ run = 0 /\ probe.ok) => Pos(Buf) >= probe.opener + probe.lexed

\* C37 as stated: a rewind finds the replay buffer drained, so no byte is
\* lost or read twice: what the loop reads is the source, in order,
\* without the regions of the delivered values.
RewindsKeepTheStream == ReplayDrained /\ ReplayIsSource /\ ScansBehindDelivered

RECURSIVE Deliveries(_, _)
\* What Reader delivers out of the text s from byte i on when the callback
\* returns nil each time, each value with the offset of its opener.
Deliveries(s, i) ==
  IF i > Len(s) THEN <<>>
  ELSE IF ~IsOpener(s[i]) THEN Deliveries(s, i + 1)
  ELSE LET res == readJSObject(SubSeq(s, i, Len(s)))
       IN IF Accepted(res)
            THEN <<[at |-> i - 1, b |-> res.output]>>
                 \o Deliveries(s, i + res.readInputBytes)
            ELSE Deliveries(s, i + 1)

\* The deliveries made so far, offsets counted from where the input
\* proper starts.
DeliveredFrom(at) == [k \in DOMAIN calls |-> [at |-> starts[k] - at, b |-> calls[k]]]

\* The deliveries are those of the input proper alone, all of them once
\* Reader has read to the end.
DeliveriesOf(made, all) ==
  /\ IsPrefix(made, all)
  /\ ReadToEnd => made = all /\ err = "nil"

\* C38: Reader on P followed by S, P without opener, delivers what Reader
\* delivers on S alone, from the same openers of S: the values are those
\* the text of S fixes, whatever P is, the empty P included.
PrefixLeavesDeliveriesAlone ==
  (run = 0 /\ pc \in {"callback", "done"}) =>
    DeliveriesOf(DeliveredFrom(given[1].at), Deliveries(given[1].text, 1))

\* Behind a prefix of two bytes a candidate was rejected and the value
\* inside it delivered.
DeliveredBehindPrefix ==
  /\ ReadToEnd /\ run = 0
  /\ given[1].at = 2 /\ Len(calls) = 1 /\ starts[1] = 3

=========================================================================
